---- MODULE Spec2Model ----
(***************************************************************************)
(* A model of marytreat's local DITA project core                          *)
(* (src/marytreat/core/local.py): the project folder, the map (LocalMap),  *)
(* its topics (LocalTopic and subclasses), sidecar records (LocalISHFile)  *)
(* and images (Image).                                                     *)
(*                                                                         *)
(* Strings are sequences of one-character tokens, e.g. <<"A"," ","b">>.    *)
(* A file extension is one token (".dita", ".3sish", ".ditamap", ".png"),  *)
(* so a file name is a base name with an extension token appended.         *)
(* All project files live in the map's folder, so a path is a file name;   *)
(* an image below the image folder carries the folder token "media/".      *)
(***************************************************************************)
EXTENDS Integers, Sequences, FiniteSets, TLC

(***************************************************************************)
(* Bounds of the model.                                                    *)
(***************************************************************************)
MaxTopics == 2
MaxPasses == 2
MaxTitleLen == 5
MaxLines == 5
MaxClicks == 3

(***************************************************************************)
(* Characters and strings.                                                 *)
(***************************************************************************)
AsciiLetters == {"A", "R", "e", "v", "i", "s", "o", "n", "h", "t", "r", "y", "f", "x", "g",
                 "m", "c", "p", "j", "O", "w", "a", "b", "d"}
NonAsciiLetters == {"U+00E9"}
Digits == {"0", "1", "2", "3", "4", "5", "6", "7", "8", "9"}
\* \w of Python's re in Unicode mode, and with re.ASCII
IsWord(c) == c \in AsciiLetters \cup NonAsciiLetters \cup Digits \cup {"_"}
IsAsciiWord(c) == c \in AsciiLetters \cup Digits \cup {"_"}

DitaExt == ".dita"
IshExt == ".3sish"
MapExt == ".ditamap"

DigitTok(d) == CASE d = 0 -> "0" [] d = 1 -> "1" [] d = 2 -> "2" [] d = 3 -> "3"
                 [] d = 4 -> "4" [] d = 5 -> "5" [] d = 6 -> "6" [] d = 7 -> "7"
                 [] d = 8 -> "8" [] d = 9 -> "9"

\* Python's str(n) for n >= 0
RECURSIVE Str(_)
Str(n) == IF n < 10 THEN <<DigitTok(n)>> ELSE Str(n \div 10) \o <<DigitTok(n % 10)>>

\* Python's s.replace(pat, rep): leftmost, non-overlapping occurrences
RECURSIVE Replace(_, _, _)
Replace(s, pat, rep) ==
    IF Len(s) < Len(pat) THEN s
    ELSE IF SubSeq(s, 1, Len(pat)) = pat
         THEN rep \o Replace(SubSeq(s, Len(pat) + 1, Len(s)), pat, rep)
         ELSE <<Head(s)>> \o Replace(Tail(s), pat, rep)

\* re.sub(r'[\s\W]', '_', s)
SubNonWord(s) == [k \in 1..Len(s) |-> IF IsWord(s[k]) THEN s[k] ELSE "_"]

\* re.sub(r'\W+', '', s, flags=re.ASCII)
RECURSIVE StripNonAsciiWord(_)
StripNonAsciiWord(s) ==
    IF s = <<>> THEN <<>>
    ELSE (IF IsAsciiWord(Head(s)) THEN <<Head(s)>> ELSE <<>>) \o StripNonAsciiWord(Tail(s))

\* os.path.splitext of a file name whose last token is its extension
BaseName(name) == SubSeq(name, 1, Len(name) - 1)
ExtOf(name) == name[Len(name)]

(***************************************************************************)
(* Prefixes by output class.                                               *)
(***************************************************************************)
OutputClasses == {"explanation", "referenceinformation", "context", "procedure",
                  "legalinformation"}
prefixes(oc) == CASE oc = "explanation" -> <<"e", "_">>
                  [] oc = "referenceinformation" -> <<"r", "_">>
                  [] oc = "context" -> <<"c", "_">>
                  [] oc = "procedure" -> <<"t", "_">>
                  [] oc = "legalinformation" -> <<"e", "_">>

doctypes == {"concept", "task", "reference"}

(***************************************************************************)
(* LocalTopic.create_new_name.  The result is [err, name]: err is TRUE     *)
(* when the code raises IndexError at new_name[1].  selfName is self.name. *)
(***************************************************************************)
Sanitize(title) ==
    StripNonAsciiWord(
        Replace(Replace(Replace(SubNonWord(title), <<"_", "_", "_">>, <<"_">>),
                        <<"_", "_">>, <<"_">>),
                <<"_", "t", "h", "e", "_">>, <<"_">>))

StripTrailing(n) == IF n[Len(n)] = "_" THEN SubSeq(n, 1, Len(n) - 1) ELSE n

Suffix(num_rep) == IF num_rep > 1 THEN <<"_">> \o Str(num_rep) ELSE <<>>

\* lines 490-515 as they would be if the placeholder 'Rev' were not rejected
create_new_name_rev_accepted(selfName, title, oc, num_rep) ==
    LET n0 == Sanitize(title) IN
    IF Len(n0) < 2
    THEN [err |-> FALSE, name |-> selfName]
    ELSE LET n1 == StripTrailing(n0) IN
         IF Len(n1) < 2
         THEN [err |-> TRUE, name |-> selfName]
         ELSE LET n2 == IF n1[2] = "_" THEN SubSeq(n1, 3, Len(n1)) ELSE n1
                  n3 == IF oc \in OutputClasses THEN prefixes(oc) \o n2 ELSE n2
              IN [err |-> FALSE, name |-> n3 \o Suffix(num_rep)]

create_new_name(selfName, title, oc, num_rep) ==
    LET n0 == Sanitize(title) IN
    IF n0 = <<"R", "e", "v">> \/ Len(n0) < 2
    THEN [err |-> FALSE, name |-> selfName]
    ELSE LET n1 == StripTrailing(n0) IN
         IF Len(n1) < 2
         THEN [err |-> TRUE, name |-> selfName]
         ELSE LET n2 == IF n1[2] = "_" THEN SubSeq(n1, 3, Len(n1)) ELSE n1
                  n3 == IF oc \in OutputClasses THEN prefixes(oc) \o n2 ELSE n2
              IN [err |-> FALSE, name |-> n3 \o Suffix(num_rep)]

(***************************************************************************)
(* State.                                                                  *)
(***************************************************************************)
VARIABLES
    disk,       \* the project folder: file name -> [kind, body] of each existing file
    source,     \* LocalMap.source: "cheetah" or "word"
    refs,       \* the map's tree in memory: its topicrefs in document order, [href, depth]
    mapTitle,   \* the text of the map's title element
    topics,     \* LocalMap.topics: sequence of topic objects
    pc,         \* "idle", or "rename" while rename_topics runs its loop
    idx,        \* rename_topics: position of the loop in self.topics
    reps,       \* rename_topics: topic_title_repetitions
    counter,    \* rename_topics: renamed_files_counter
    passes,     \* number of rename_topics calls made
    rooted,     \* create_root_concept has been called
    raised,     \* the last operation ended by raising an exception
    steps,      \* rename_topics: what update_name did for each topic of the current pass
    images,     \* LocalMap.images: href -> the Image object's [title, temp_title]
    imageFolder,\* LocalMap.image_folder: <<>> for the map's folder, else the subfolder's name
    logged,     \* what the last operation sent to the logger: records [level, msg, about]
    lastOp,     \* the operation called last
    start,      \* rename_topics: the topics' names and links and the map's tree at the call
    ui          \* the Tridion client window: queues, progress bars, scheduled polls

vars == <<disk, source, refs, mapTitle, topics, pc, idx, reps, counter, passes, rooted,
          raised, steps, images, imageFolder, logged, lastOp, start, ui>>

\* no window
NoUi == <<>>

NoIsh == [name |-> <<>>, ftitle |-> <<>>]
MapName == <<"m", MapExt>>

\* the tree of a topic file: the id, tag and outputclass of the root element (oc is
\* NoOc when the attribute is absent), the title text, the hrefs of the local links,
\* the figures ([href, title] of each fig with an image) and the tag of the root-level
\* content element (NoBody when there is none)
NoOc == "(none)"
NoBody == "(none)"
BodyOf(tag) == CASE tag = "concept" -> "conbody" [] tag = "task" -> "taskbody"
                 [] tag = "reference" -> "refbody" [] OTHER -> "body"
\* shortdesc: "absent" (no shortdesc element), "empty" (an element without text) or
\* "text"; drafts: the tree has draft-comment elements
Content(id, tag, oc, title, links, figs, body) ==
    [id |-> id, tag |-> tag, oc |-> oc, title |-> title, links |-> links,
     figs |-> figs, body |-> body, shortdesc |-> "text", drafts |-> FALSE]

TopicFile(c) == [kind |-> "topic", body |-> c]
IshFile(ftitle) == [kind |-> "ish", body |-> ftitle]
MapFile(r, t) == [kind |-> "map", body |-> [refs |-> r, title |-> t]]

Exists(d, name) == name \in DOMAIN d

\* LocalProjectFile.write of a file at path `name`
Write(d, name, file) == [n \in DOMAIN d \cup {name} |-> IF n = name THEN file ELSE d[n]]

\* os.rename
OsRename(d, old, new) ==
    [n \in (DOMAIN d \ {old}) \cup {new} |-> IF n = new THEN d[old] ELSE d[n]]

(***************************************************************************)
(* file_rename(old_path, new_path): [disk, warn, err].                     *)
(***************************************************************************)
file_rename(d, old, new) ==
    IF ~Exists(d, old) THEN [disk |-> d, warn |-> {"No file to rename"}, err |-> FALSE]
    ELSE IF Exists(d, new)
         THEN [disk |-> d, warn |-> {"New path already exists"}, err |-> FALSE]
         ELSE IF old = new THEN [disk |-> d, warn |-> {}, err |-> TRUE]
              ELSE [disk |-> OsRename(d, old, new), warn |-> {}, err |-> FALSE]

(***************************************************************************)
(* The content model (marytreat.core.mary_xml.XMLContent), as the core     *)
(* uses it.                                                                *)
(***************************************************************************)
title_missing(c) == c.title = <<>>

update_local_links(c, old, new) ==
    [c EXCEPT !.links = {IF l = old THEN new ELSE l : l \in c.links}]

add_legal_title_and_shortdesc(c) == c

(***************************************************************************)
(* LocalMap.update_topicref(old, new): the map's tree afterwards; the      *)
(* caller writes the map file.                                             *)
(***************************************************************************)
update_topicref(r, old, new) ==
    [k \in DOMAIN r |-> IF r[k].href = old /\ old # new
                        THEN [r[k] EXCEPT !.href = new] ELSE r[k]]

\* rename_path as it would be without the test for an existing target
rename_path_overwrite(d, old_path, new_name, ext) ==
    LET path == new_name \o <<ext>> IN
    [name |-> path, disk |-> OsRename(d, old_path, path), warn |-> {}, err |-> FALSE,
     renamed |-> TRUE]

(***************************************************************************)
(* LocalTopic.rename_path(old_path, new_name), on the topic named selfName *)
(* with extension ext: [name, disk, warn, err, renamed].                   *)
(***************************************************************************)
rename_path(d, old_path, new_name, ext) ==
    LET path == new_name \o <<ext>> IN
    IF Exists(d, path)
    THEN [name |-> path, disk |-> d, warn |-> {"New path already exists"},
          err |-> FALSE, renamed |-> FALSE]
    ELSE LET fr == file_rename(d, old_path, path) IN
         [name |-> path, disk |-> fr.disk, warn |-> fr.warn, err |-> fr.err,
          renamed |-> fr.disk # d]

(***************************************************************************)
(* LocalISHFile.rename_with_path(old_path, new_name):                      *)
(* [ish, disk, warn, err, renamed].                                        *)
(***************************************************************************)
rename_with_path(d, ish, old_path, new_name) ==
    LET path == new_name \o <<ExtOf(ish.name)>>
        fr == file_rename(d, old_path, path)
        ish2 == [name |-> path, ftitle |-> new_name]
    IN [ish |-> ish2,
        disk |-> IF fr.err THEN fr.disk ELSE Write(fr.disk, path, IshFile(new_name)),
        warn |-> fr.warn, err |-> fr.err, renamed |-> fr.disk # d]

(***************************************************************************)
(* The loop of update_name over self.ditamap.topics (lines 550-552):       *)
(* rewrite the links of each topic and write it, in list order.            *)
(***************************************************************************)
RewriteLinks(ts, old, new) ==
    [k \in DOMAIN ts |->
        [ts[k] EXCEPT !.content = update_local_links(@, old, new)]]

RECURSIVE WriteTopics(_, _, _)
WriteTopics(d, ts, k) ==
    IF k > Len(ts) THEN d
    ELSE WriteTopics(Write(d, ts[k].name, TopicFile(ts[k].content)), ts, k + 1)

(***************************************************************************)
(* LocalTopic.update_name(num_rep) for the topic at position i of          *)
(* self.ditamap.topics.  The result is the folder, the map's tree and the  *)
(* topic objects afterwards, whether an exception left the method, and a   *)
(* record fx of what the call did.                                         *)
(***************************************************************************)
NoFx(i, old, outcome) ==
    [i |-> i, old |-> old, new |-> old, outcome |-> outcome, warn |-> {},
     targetExisted |-> FALSE, fileRenamed |-> FALSE, linksChanged |-> FALSE,
     linksLeft |-> FALSE, refsChanged |-> FALSE, refsLeft |-> FALSE,
     hasIsh |-> FALSE, ishRenamed |-> FALSE, oldKept |-> TRUE, refHadOld |-> FALSE,
     refHasNew |-> FALSE]

update_name(d, r, mt, ts, i, num_rep) ==
    LET t0 == ts[i]
        old == t0.name
        legal == t0.cls = "LocalLegalInformationTopic"
        c1 == IF legal THEN add_legal_title_and_shortdesc(t0.content) ELSE t0.content
        d1 == IF legal THEN Write(d, old, TopicFile(c1)) ELSE d
        tsL == [ts EXCEPT ![i].content = c1]
    IN
    IF ~Exists(d1, old)       \* old_topic = LocalTopic(self.path, ...) cannot parse
    THEN [disk |-> d1, refs |-> r, topics |-> tsL, raised |-> TRUE,
          fx |-> NoFx(i, old, "raised")]
    ELSE IF title_missing(c1)
    THEN [disk |-> d1, refs |-> r, topics |-> tsL, raised |-> FALSE,
          fx |-> NoFx(i, old, "title missing")]
    ELSE LET nn == create_new_name(old, c1.title, c1.oc, num_rep) IN
    IF nn.err
    THEN [disk |-> d1, refs |-> r, topics |-> tsL, raised |-> TRUE,
          fx |-> NoFx(i, old, "raised")]
    ELSE IF old = nn.name
    THEN [disk |-> d1, refs |-> r, topics |-> tsL, raised |-> FALSE,
          fx |-> NoFx(i, old, "nothing to rename")]
    ELSE LET rp == rename_path(d1, old, nn.name, ExtOf(old))
             ts1 == [tsL EXCEPT ![i].name = rp.name]
             ts2 == RewriteLinks(ts1, old, nn.name \o <<DitaExt>>)
             d2 == WriteTopics(rp.disk, ts2, 1)
             r2 == update_topicref(r, old, rp.name)
             d3 == Write(d2, MapName, MapFile(r2, mt))
             hasIsh == t0.ish # NoIsh
             rw == rename_with_path(d3, t0.ish, t0.ish.name, nn.name)
             ts3 == IF hasIsh THEN [ts2 EXCEPT ![i].ish = rw.ish] ELSE ts2
             d4 == IF hasIsh THEN rw.disk ELSE d3
         IN [disk |-> d4, refs |-> r2, topics |-> ts3,
             raised |-> rp.err \/ (hasIsh /\ rw.err),
             fx |-> [i |-> i, old |-> old, new |-> rp.name, outcome |-> "processed",
                     warn |-> rp.warn \cup (IF hasIsh THEN rw.warn ELSE {}),
                     targetExisted |-> Exists(d1, rp.name),
                     targetBefore |-> IF Exists(d1, rp.name) THEN d1[rp.name] ELSE NoIsh,
                     fileRenamed |-> rp.renamed,
                     linksChanged |-> \E k \in DOMAIN ts : ts2[k].content.links # tsL[k].content.links,
                     linksLeft |-> \E k \in DOMAIN ts : k # i /\ old \in ts2[k].content.links,
                     refsChanged |-> r2 # r,
                     refsLeft |-> \E k \in DOMAIN r2 : r2[k].href = old,
                     hasIsh |-> hasIsh,
                     ishRenamed |-> hasIsh /\ rw.renamed,
                     oldKept |-> Exists(d4, old),
                     refHadOld |-> \E k \in DOMAIN r : r[k].href = old,
                     refHasNew |-> \E k \in DOMAIN r2 : r2[k].href = rp.name]]

(***************************************************************************)
(* Projects the model starts from: the state after LocalMap(file_path).    *)
(***************************************************************************)
TRevHist == <<"R", "e", "v", "i", "s", "i", "o", "n", " ", "h", "i", "s", "t", "o", "r", "y">>
TRevHistDot == TRevHist \o <<".">>
TRev == <<"R", "e", "v">>
TADot == <<"A", ".">>
TNone == <<>>
TOneChar == <<"A">>

Kind(cls, tag, oc, title) == [cls |-> cls, tag |-> tag, oc |-> oc, title |-> title]

TopicPool ==
    { Kind("LocalConceptTopic", "concept", "context", TRevHist),
      Kind("LocalTaskTopic", "task", "procedure", TRevHist),
      Kind("LocalConceptTopic", "concept", "context", TRevHistDot),
      Kind("LocalTaskTopic", "task", "procedure", TRev),
      Kind("LocalConceptTopic", "concept", "context", TNone),
      Kind("LocalTaskTopic", "task", "procedure", TADot),
      Kind("LocalTopic", "topic", "explanation", TRevHist),
      Kind("LocalTaskTopic", "task", "procedure", TOneChar) }

\* a file name that is already the canonical name of the title "Revision history"
TakenName == <<"c", "_", "R", "e", "v", "i", "s", "i", "o", "n", "_", "h", "i", "s", "t", "o", "r",
               "y", DitaExt>>
FreshName(i) == <<"f", DigitTok(i), DitaExt>>
IshNameOf(name) == BaseName(name) \o <<IshExt>>

ForeignContent == Content(0, "concept", "context", <<"x">>, {}, <<>>, "conbody")

\* occ: who holds TakenName at the start: nobody (0), topic occ, or a file that is
\* no topic of the map (n + 1)
InitName(i, occ) == IF occ = i THEN TakenName ELSE FreshName(i)

InitTopic(i, n, kinds, occ, src) ==
    LET name == InitName(i, occ) IN
    [id |-> i,
     name |-> name,
     cls |-> kinds[i].cls,
     content |-> Content(i, kinds[i].tag, kinds[i].oc, kinds[i].title,
                         {InitName(j, occ) : j \in (1..n) \ {i}}, <<>>,
                         BodyOf(kinds[i].tag)),
     ish |-> IF src = "cheetah"
             THEN [name |-> IshNameOf(name), ftitle |-> BaseName(name)] ELSE NoIsh,
     children |-> IF i = 1 /\ kinds[1].oc = "context"
                  THEN [j \in 1..(n - 1) |-> InitName(j + 1, occ)] ELSE <<>>,
     images |-> {}]

InitRefs(n, kinds, occ) ==
    [i \in 1..n |-> [href |-> InitName(i, occ),
                     depth |-> IF i > 1 /\ kinds[1].oc = "context" THEN 1 ELSE 0]]

InitMapTitle == <<"g">>

InitDisk(n, ts, r, occ, src) ==
    LET names == {ts[i].name : i \in 1..n}
        ishes == IF src = "cheetah" THEN {IshNameOf(nm) : nm \in names} ELSE {}
        foreign == IF occ = n + 1 THEN {TakenName} ELSE {}
        foreignIsh == IF occ = n + 1 /\ src = "cheetah" THEN {IshNameOf(TakenName)} ELSE {}
    IN [f \in names \cup ishes \cup foreign \cup foreignIsh \cup {MapName} |->
          IF f = MapName THEN MapFile(r, InitMapTitle)
          ELSE IF f \in names
               THEN TopicFile(ts[CHOOSE i \in 1..n : ts[i].name = f].content)
               ELSE IF f \in foreign THEN TopicFile(ForeignContent)
               ELSE IshFile(BaseName(f))]

(***************************************************************************)
(* Specification Spec: a constructed map and the operations on it.         *)
(***************************************************************************)
NoStart == [names |-> <<>>, links |-> <<>>, refs |-> <<>>, files |-> {}, again |-> FALSE]

Init ==
    \E n \in 1..MaxTopics, src \in {"cheetah", "word"} :
    \E kinds \in [1..n -> TopicPool], occ \in 0..(n + 1) :
        LET ts == [i \in 1..n |-> InitTopic(i, n, kinds, occ, src)]
            r == InitRefs(n, kinds, occ)
        IN /\ topics = ts
           /\ refs = r
           /\ mapTitle = InitMapTitle
           /\ source = src
           /\ disk = InitDisk(n, ts, r, occ, src)
           /\ pc = "idle" /\ idx = 0 /\ reps = <<>> /\ counter = 0
           /\ passes = 0 /\ rooted = FALSE /\ raised = FALSE
           /\ steps = <<>> /\ images = <<>> /\ imageFolder = <<>>
           /\ logged = {} /\ lastOp = "LocalMap" /\ start = NoStart /\ ui = NoUi

(***************************************************************************)
(* LocalMap.rename_topics: the call, one iteration of its loop, its return.*)
(***************************************************************************)
RenameTopicsCall ==
    /\ pc = "idle" /\ passes < MaxPasses
    /\ pc' = "rename" /\ idx' = 1 /\ reps' = <<>> /\ counter' = 0
    /\ steps' = <<>> /\ raised' = FALSE /\ passes' = passes + 1
    /\ logged' = {} /\ lastOp' = "rename_topics"
    /\ start' = [names |-> [k \in DOMAIN topics |-> topics[k].name],
                 links |-> [k \in DOMAIN topics |-> topics[k].content.links],
                 refs |-> refs, files |-> DOMAIN disk,
                 again |-> passes >= 1 /\ idx > Len(topics)]
    /\ UNCHANGED <<ui, disk, source, refs, mapTitle, topics, rooted, images, imageFolder>>

\* the repetition count as it would be if a repeated title were not counted up
BumpNoIncrement(rp, title) == [t \in DOMAIN rp \cup {title} |-> 1]

\* topic_title_repetitions after the title of the next topic is counted (lines 286-289)
Bump(rp, title) ==
    [t \in DOMAIN rp \cup {title} |->
        IF t = title THEN (IF t \in DOMAIN rp THEN rp[t] + 1 ELSE 1) ELSE rp[t]]

RenameTopicsIter ==
    /\ pc = "rename" /\ idx <= Len(topics)
    /\ LET topic == topics[idx] IN
       IF topic.content.tag \in doctypes
       THEN LET title_text == topic.content.title
                rp == Bump(reps, title_text)
                res == update_name(disk, refs, mapTitle, topics, idx, rp[title_text])
            IN /\ reps' = rp
               /\ disk' = res.disk /\ refs' = res.refs /\ topics' = res.topics
               /\ steps' = Append(steps, res.fx @@ [title |-> title_text,
                                                     oc |-> topic.content.oc,
                                                     num_rep |-> rp[title_text]])
               /\ logged' = logged \cup {[level |-> "warning", msg |-> w, about |-> idx] :
                                            w \in res.fx.warn}
               /\ IF res.raised
                  THEN /\ pc' = "idle" /\ raised' = TRUE
                       /\ UNCHANGED <<idx, counter>>
                  ELSE /\ idx' = idx + 1 /\ counter' = counter + 1
                       /\ UNCHANGED <<pc, raised>>
       ELSE /\ idx' = idx + 1
            /\ steps' = Append(steps, NoFx(idx, topic.name, "not a doctype") @@
                                      [title |-> topic.content.title,
                                       oc |-> topic.content.oc, num_rep |-> 0])
            /\ UNCHANGED <<reps, disk, refs, topics, logged, pc, raised, counter>>
    /\ UNCHANGED <<ui, source, mapTitle, passes, rooted, images, imageFolder, lastOp, start>>

RenameTopicsReturn ==
    /\ pc = "rename" /\ idx > Len(topics)
    /\ pc' = "idle"
    /\ UNCHANGED <<ui, disk, source, refs, mapTitle, topics, idx, reps, counter, passes, rooted,
                   raised, steps, images, imageFolder, logged, lastOp, start>>

(***************************************************************************)
(* LocalMap.create_root_concept(title).                                    *)
(***************************************************************************)
\* templates/root_concept.dita: a concept with a placeholder title
RootTemplateTitles == {TRevHist}
RootTemplate(t) == Content(100, "concept", "context", t, {}, <<>>, "conbody")
RootConceptName == <<"r", "o", "o", "t", "_">> \o BaseName(MapName) \o <<DitaExt>>
MapTitles == {<<"h">>}

\* lines 396-404 as they would be if the new reference were put before the old ones
root_concept_refs_flat(r) == <<[href |-> RootConceptName, depth |-> 0]>> \o r

\* lines 396-404: the copy of the map's root becomes the reference to the root concept,
\* holding every former reference entry, and is the root's only reference
root_concept_refs(r) ==
    <<[href |-> RootConceptName, depth |-> 0]>> \o
    [k \in DOMAIN r |-> [r[k] EXCEPT !.depth = @ + 1]]

CreateRootConcept ==
    /\ pc = "idle" /\ ~rooted
    /\ \E title \in MapTitles, tt \in RootTemplateTitles :
        LET d1 == Write(disk, RootConceptName, TopicFile(RootTemplate(tt)))
            rconcept == [id |-> 100, name |-> RootConceptName, cls |-> "LocalConceptTopic",
                         content |-> RootTemplate(tt), ish |-> NoIsh, children |-> <<>>,
                         images |-> {}]
            r2 == root_concept_refs(refs)
        IN /\ topics' = Append(topics, rconcept)
           /\ refs' = r2
           /\ mapTitle' = title
           /\ disk' = Write(d1, MapName, MapFile(r2, title))
    /\ rooted' = TRUE /\ raised' = FALSE /\ logged' = {} /\ lastOp' = "create_root_concept"
    /\ UNCHANGED <<ui, source, pc, idx, reps, counter, passes, steps, images, imageFolder, start>>

(***************************************************************************)
(* LocalMap.add_topic_groups().                                            *)
(***************************************************************************)
\* XMLContent.add_topic_groups: wraps reference entries in groups; the entries, their
\* hrefs and their document order stay
add_topic_groups(r) == r

AddTopicGroups ==
    /\ pc = "idle"
    /\ refs' = add_topic_groups(refs)
    /\ disk' = Write(disk, MapName, MapFile(refs', mapTitle))
    /\ raised' = FALSE /\ logged' = {} /\ lastOp' = "add_topic_groups"
    /\ UNCHANGED <<ui, source, mapTitle, topics, pc, idx, reps, counter, passes, rooted, steps,
                   images, imageFolder, start>>

Next ==
    \/ RenameTopicsCall \/ RenameTopicsIter \/ RenameTopicsReturn
    \/ CreateRootConcept \/ AddTopicGroups

Spec == Init /\ [][Next]_vars

(***************************************************************************)
(* Construction of the map: LocalMap.__init__.                             *)
(***************************************************************************)
PngExt == ".png"
ExtTokens == {DitaExt, IshExt, MapExt, PngExt}
ImageExts == {PngExt}
\* a subfolder's name, and the token its files' paths start with
FolderName(tok) == IF tok = "media/" THEN <<"media">> ELSE <<"images">>
FolderTokens == {"media/", "images/"}
NoTitle == <<>>

IsDotTok(c) == c = "." \/ c \in ExtTokens
HasDot(name) == \E k \in DOMAIN name : IsDotTok(name[k])
LastDot(name) ==
    CHOOSE k \in DOMAIN name : IsDotTok(name[k]) /\ \A j \in (k + 1)..Len(name) : ~IsDotTok(name[j])
\* the split as it would be at the first dot of the name
SplitNameFirst(name) ==
    LET k == CHOOSE j \in DOMAIN name :
                 IsDotTok(name[j]) /\ \A i \in 1..(j - 1) : ~IsDotTok(name[i]) IN
    [base |-> SubSeq(name, 1, k - 1),
     ext |-> (IF name[k] = "." THEN <<>> ELSE <<name[k]>>) \o SubSeq(name, k + 1, Len(name))]

\* fl.split('.'): the text before the last dot and the text after it
SplitName(name) ==
    LET k == LastDot(name) IN
    [base |-> SubSeq(name, 1, k - 1),
     ext |-> (IF name[k] = "." THEN <<>> ELSE <<name[k]>>) \o SubSeq(name, k + 1, Len(name))]

\* os.listdir(folder): the entries of the folder itself
ListDir(d, folderTok) ==
    IF folderTok = <<>> THEN {n \in DOMAIN d : n[1] \notin FolderTokens}
    ELSE {Tail(n) : n \in {m \in DOMAIN d : m[1] = folderTok[1]}}

\* LocalMap.scan_folder: extension -> the base names of the entries with it
scan_folder(listing) ==
    LET dotted == {n \in listing : HasDot(n)} IN
    [e \in {SplitName(n).ext : n \in dotted} |->
        {SplitName(n).base : n \in {m \in dotted : SplitName(m).ext = e}}]

SymDiff(a, b) == (a \ b) \cup (b \ a)

\* LocalMap.check_project_folder_content: [source, raised, reported, critical];
\* content_types['dita'] raises KeyError when the folder has no .dita file
check_project_folder_content(listing) ==
    LET content_types == scan_folder(listing) IN
    IF <<IshExt>> \in DOMAIN content_types
    THEN IF <<DitaExt>> \notin DOMAIN content_types
         THEN [source |-> "(none)", raised |-> TRUE, reported |-> {}, critical |-> FALSE]
         ELSE IF Cardinality(content_types[<<DitaExt>>]) # Cardinality(content_types[<<IshExt>>])
              THEN [source |-> "(none)", raised |-> TRUE, critical |-> TRUE,
                    reported |-> SymDiff(content_types[<<DitaExt>>], content_types[<<IshExt>>])]
              ELSE [source |-> "cheetah", raised |-> FALSE, reported |-> {}, critical |-> FALSE]
    ELSE [source |-> "word", raised |-> FALSE, reported |-> {}, critical |-> FALSE]

IsDir(d, name) == Exists(d, name) /\ d[name].kind = "dir"

\* lines 135-141 as they would be without the test of self.source
image_folder_any_source(d, src) ==
    IF IsDir(d, FolderName("images/")) THEN <<"images/">>
    ELSE IF IsDir(d, FolderName("media/")) THEN <<"media/">>
    ELSE <<>>

\* lines 135-141: the last of 'media', 'images' that is a subfolder wins
image_folder(d, src) ==
    IF src = "word" /\ IsDir(d, FolderName("images/")) THEN <<"images/">>
    ELSE IF src = "word" /\ IsDir(d, FolderName("media/")) THEN <<"media/">>
    ELSE <<>>

\* LocalMap.get_images: href -> Image(href, self), title and temp_title None
NewImage == [title |-> NoTitle, temp_title |-> NoTitle]
map_get_images(d, folderTok) ==
    LET files == {f \in ListDir(d, folderTok) : f[Len(f)] \in ImageExts} IN
    [h \in {folderTok \o f : f \in files} |-> NewImage]

(***************************************************************************)
(* Topic discovery: LocalTopic.__init__, LocalTopic.get_images,            *)
(* LocalMap.get_topic_from_topicref, LocalMap.get_topics.                  *)
(***************************************************************************)
\* str.strip() of a figure title
RECURSIVE LStrip(_)
LStrip(t) == IF t # <<>> /\ Head(t) = " " THEN LStrip(Tail(t)) ELSE t
RECURSIVE RStrip(_)
RStrip(t) == IF t # <<>> /\ t[Len(t)] = " " THEN RStrip(SubSeq(t, 1, Len(t) - 1)) ELSE t
Strip(t) == RStrip(LStrip(t))

\* href.split('/')[-1]
LastSegment(href) == IF href # <<>> /\ Head(href) \in FolderTokens THEN Tail(href) ELSE href

\* line 457: the figure's image is the map's image
Matches(figHref, mapHref) == figHref = mapHref \/ LastSegment(figHref) = mapHref

\* the title the figures of one topic leave on a map image: each labelled figure that
\* matches sets it, so the last one stays
RECURSIVE LabelByFirst(_, _, _, _)
LabelByFirst(title, figs, mapHref, k) ==
    IF k > Len(figs) THEN title
    ELSE LabelByFirst(IF Matches(figs[k].href, mapHref) /\ figs[k].title # NoTitle
                         /\ title = NoTitle
                      THEN Strip(figs[k].title) ELSE title,
                      figs, mapHref, k + 1)
RECURSIVE LabelBy(_, _, _, _)
LabelBy(title, figs, mapHref, k) ==
    IF k > Len(figs) THEN title
    ELSE LabelBy(IF Matches(figs[k].href, mapHref) /\ figs[k].title # NoTitle
                 THEN Strip(figs[k].title) ELSE title,
                 figs, mapHref, k + 1)

\* LocalTopic.get_images: the map's images afterwards, and the topic's images
topic_get_images(imgs, figs) ==
    [imgs |-> [h \in DOMAIN imgs |-> [imgs[h] EXCEPT !.title = LabelBy(@, figs, h, 1)]],
     mine |-> {h \in DOMAIN imgs : \E k \in DOMAIN figs : Matches(figs[k].href, h)}]

\* XMLContent.detect_type: the type inferred from the first content element
detect_type(c) == CASE c.body = "taskbody" -> "procedure"
                    [] c.body = "refbody" -> "referenceinformation"
                    [] OTHER -> "explanation"

\* LocalMap.oc_object_types, and LocalTopic for any other output class
ClassOf(oc) == CASE oc = "referenceinformation" -> "LocalReferenceInformationTopic"
                 [] oc = "procedure" -> "LocalTaskTopic"
                 [] oc = "legalinformation" -> "LocalLegalInformationTopic"
                 [] oc \in {"context", "lpcontext"} -> "LocalConceptTopic"
                 [] OTHER -> "LocalTopic"

\* topicref.findall('topicref'): the positions of the direct children of entry k
DirectChildren(r, k) ==
    {j \in (k + 1)..Len(r) :
        /\ r[j].depth = r[k].depth + 1
        /\ \A m \in (k + 1)..(j - 1) : r[m].depth > r[k].depth}

SetToSeq(S) ==
    LET n == Cardinality(S) IN
    [i \in 1..n |-> CHOOSE x \in S : Cardinality({y \in S : y < x}) = i - 1]

\* lines 240-246 with the test for child references first
resolve_oc_children_first(c, nkids) ==
    IF nkids > 0 THEN "context" ELSE IF c.oc # NoOc THEN c.oc ELSE detect_type(c)

\* lines 240-246: the outputclass of a topic whose reference entry has nkids children
resolve_oc(c, nkids) ==
    IF c.oc # NoOc THEN c.oc ELSE IF nkids > 0 THEN "context" ELSE detect_type(c)

\* lines 255-258 as they would be if the sidecar file were not parsed and checked
pair_ish_unchecked(d, href, src) ==
    LET ish_path == Replace(href, <<DitaExt>>, <<IshExt>>) IN
    IF src # "cheetah" THEN [ok |-> TRUE, ish |-> NoIsh]
    ELSE [ok |-> TRUE,
          ish |-> [name |-> ish_path,
                   ftitle |-> IF Exists(d, ish_path) THEN d[ish_path].body ELSE <<>>]]

\* lines 255-258 with LocalISHFile.__init__ and check_ishobject: [ok, ish]; ok is FALSE
\* when the sidecar file cannot be parsed or its root is not ishobject
pair_ish(d, href, src) ==
    LET ish_path == Replace(href, <<DitaExt>>, <<IshExt>>) IN
    IF src # "cheetah" THEN [ok |-> TRUE, ish |-> NoIsh]
    ELSE IF Exists(d, ish_path) /\ d[ish_path].kind = "ish"
         THEN [ok |-> TRUE, ish |-> [name |-> ish_path, ftitle |-> d[ish_path].body]]
         ELSE [ok |-> FALSE, ish |-> NoIsh]

\* XMLContent.insert_shortdesc_tag: an empty shortdesc element is put into the tree
insert_shortdesc_tag(c) == [c EXCEPT !.shortdesc = "empty"]

\* LocalTopic.__init__ as it would be with self.insert_shortdesc_tag(), which writes
topic_init_flushing(d, path, c) ==
    IF c.shortdesc = "absent"
    THEN [content |-> insert_shortdesc_tag(c),
          disk |-> Write(d, path, TopicFile(insert_shortdesc_tag(c)))]
    ELSE [content |-> c, disk |-> d]

\* LocalTopic.__init__ (lines 418-421) on the parsed tree c of the file at path:
\* [content, disk]; the shortdesc element is inserted in memory only
topic_init(d, path, c) ==
    IF c.shortdesc = "absent"
    THEN [content |-> insert_shortdesc_tag(c), disk |-> d]
    ELSE [content |-> c, disk |-> d]

NoTopic == [id |-> 0, name |-> <<>>, cls |-> "", content |-> <<>>, ish |-> NoIsh,
            children |-> <<>>, images |-> {}]

RECURSIVE get_topic_from_topicref(_, _, _, _, _)
RECURSIVE ChildTopics(_, _, _, _, _, _, _)
\* [ok, imgs, disk, names]: the children of a context topic, constructed in order
ChildTopics(d, r, src, imgs, kids, pos, names) ==
    IF pos > Len(kids) THEN [ok |-> TRUE, imgs |-> imgs, disk |-> d, names |-> names]
    ELSE LET got == get_topic_from_topicref(d, r, src, imgs, kids[pos]) IN
         IF ~got.ok THEN [ok |-> FALSE, imgs |-> got.imgs, disk |-> got.disk, names |-> names]
         ELSE ChildTopics(got.disk, r, src, got.imgs, kids, pos + 1,
                          Append(names, got.topic.name))

\* [ok, imgs, disk, topic]: ok is FALSE when a file cannot be parsed and the call raises
get_topic_from_topicref(d, r, src, imgs, k) ==
    LET href == r[k].href IN
    IF ~(Exists(d, href) /\ d[href].kind = "topic")
    THEN [ok |-> FALSE, imgs |-> imgs, disk |-> d, topic |-> NoTopic]
    ELSE LET c == d[href].body
             kids == SetToSeq(DirectChildren(r, k))
             oc == resolve_oc(c, Len(kids))
             ti == topic_init(d, href, c)
             gi == topic_get_images(imgs, ti.content.figs)
             hier == oc \in {"context", "lpcontext"}
             ch == IF hier
                   THEN ChildTopics(ti.disk, r, src, gi.imgs, kids, 1, <<>>)
                   ELSE [ok |-> TRUE, imgs |-> gi.imgs, disk |-> ti.disk, names |-> <<>>]
             pair == pair_ish(ch.disk, href, src)
         IN IF ~ch.ok \/ ~pair.ok
            THEN [ok |-> FALSE, imgs |-> ch.imgs, disk |-> ch.disk, topic |-> NoTopic]
            ELSE [ok |-> TRUE, imgs |-> ch.imgs, disk |-> ch.disk,
                  topic |-> [id |-> c.id, name |-> href, cls |-> ClassOf(oc),
                             content |-> [ti.content EXCEPT !.oc = oc],
                             ish |-> pair.ish,
                             children |-> ch.names,
                             images |-> gi.mine]]

\* LocalMap.get_topics: [ok, imgs, disk, topics]
RECURSIVE get_topics(_, _, _, _, _, _)
get_topics(d, r, src, imgs, k, ts) ==
    IF k > Len(r) THEN [ok |-> TRUE, imgs |-> imgs, disk |-> d, topics |-> ts]
    ELSE LET got == get_topic_from_topicref(d, r, src, imgs, k) IN
         IF ~got.ok THEN [ok |-> FALSE, imgs |-> got.imgs, disk |-> got.disk, topics |-> ts]
         ELSE get_topics(got.disk, r, src, got.imgs, k + 1, Append(ts, got.topic))

(***************************************************************************)
(* Specification SpecFolder: a project folder, and LocalMap(file_path) on  *)
(* the map in it.                                                          *)
(***************************************************************************)
FileA == <<"a", DitaExt>>
FileB == <<"b", DitaExt>>
Fig1 == <<"f", "i", "g", "1", PngExt>>
TOverview == <<"O", "v", "e", "r", "v", "i", "e", "w">>

ContentA(oc) == Content(1, "concept", oc, TRevHist, {FileB},
                    <<[href |-> Fig1, title |-> TOverview]>>, "conbody")
ContentB == [Content(2, "task", "procedure", TRevHist, {FileA},
                     <<[href |-> Fig1, title |-> NoTitle]>>, "taskbody")
                EXCEPT !.shortdesc = "absent"]

RefShapes ==
    { <<>>,
      <<[href |-> FileA, depth |-> 0]>>,
      <<[href |-> FileA, depth |-> 0], [href |-> FileB, depth |-> 0]>>,
      <<[href |-> FileA, depth |-> 0], [href |-> FileB, depth |-> 1]>> }

\* the outputclass attribute of a.dita: none, a known one, one outside the known set
OcChoices == {NoOc, "procedure", "glossary"}
\* a file with the sidecar extension whose root is not ishobject
NotIshFile == [kind |-> "xml", body |-> <<>>]
FolderOf(r, dita, ish, sub, img, ocA, badIsh) ==
    LET names == {MapName} \cup dita \cup ish \cup sub \cup img IN
    [n \in names |->
        IF n = MapName THEN MapFile(r, InitMapTitle)
        ELSE IF n = FileA THEN TopicFile(ContentA(ocA))
        ELSE IF n = FileB THEN TopicFile(ContentB)
        ELSE IF n \in ish
        THEN (IF badIsh /\ n = IshNameOf(FileA) THEN NotIshFile ELSE IshFile(BaseName(n)))
        ELSE IF n \in sub THEN [kind |-> "dir", body |-> <<>>]
        ELSE [kind |-> "image", body |-> <<>>]]

FolderInit ==
    \E r \in RefShapes, dita \in SUBSET {FileA, FileB},
       ish \in SUBSET {IshNameOf(FileA), IshNameOf(FileB)},
       sub \in SUBSET {FolderName("media/"), FolderName("images/")},
       img \in SUBSET {Fig1, <<"media/">> \o Fig1, <<"images/">> \o Fig1},
       ocA \in OcChoices, badIsh \in BOOLEAN :
        /\ \A tok \in FolderTokens : <<tok>> \o Fig1 \in img => FolderName(tok) \in sub
        /\ badIsh => IshNameOf(FileA) \in ish
        /\ disk = FolderOf(r, dita, ish, sub, img, ocA, badIsh)
        /\ topics = <<>> /\ refs = <<>> /\ mapTitle = NoTitle /\ source = "(none)"
        /\ pc = "new" /\ idx = 0 /\ reps = <<>> /\ counter = 0
        /\ passes = 0 /\ rooted = FALSE /\ raised = FALSE
        /\ steps = <<>> /\ images = <<>> /\ imageFolder = <<>>
        /\ logged = {} /\ lastOp = "(none)" /\ start = NoStart /\ ui = NoUi

\* LocalMap.__init__(file_path)
Construct ==
    /\ pc = "new"
    /\ LET map == disk[MapName].body
           chk == check_project_folder_content(ListDir(disk, <<>>))
           fldr == image_folder(disk, chk.source)
           imgs == map_get_images(disk, fldr)
           got == get_topics(disk, map.refs, chk.source, imgs, 1, <<>>)
       IN /\ refs' = map.refs /\ mapTitle' = map.title
          /\ source' = chk.source
          /\ logged' = IF chk.critical
                       THEN {[level |-> "critical", msg |-> "files have no pair",
                              about |-> chk.reported]}
                       ELSE {}
          /\ IF chk.raised
             THEN /\ raised' = TRUE /\ pc' = "failed"
                  /\ UNCHANGED <<disk, topics, images, imageFolder>>
             ELSE /\ imageFolder' = fldr
                  /\ disk' = got.disk
                  /\ images' = got.imgs
                  /\ topics' = got.topics
                  /\ raised' = ~got.ok
                  /\ pc' = IF got.ok THEN "idle" ELSE "failed"
    /\ lastOp' = "LocalMap"
    /\ UNCHANGED <<ui, idx, reps, counter, passes, rooted, steps, start>>

NextFolder == Construct

SpecFolder == FolderInit /\ [][NextFolder]_vars

DitaBases == {BaseName(n) : n \in {m \in ListDir(disk, <<>>) : m[Len(m)] = DitaExt}}
IshBases == {BaseName(n) : n \in {m \in ListDir(disk, <<>>) : m[Len(m)] = IshExt}}

\* C6: construction finds provenance 'cheetah' iff the folder has a .3sish file; then,
\* if the base names of the .dita files and of the .3sish files are not the same set,
\* construction fails and reports exactly their symmetric difference; without a
\* .3sish file the provenance is 'word'.
C6_Provenance ==
    pc # "new" =>
        IF IshBases # {}
        THEN IF DitaBases # IshBases
             THEN /\ raised /\ source = "(none)"
                  /\ logged = {[level |-> "critical", msg |-> "files have no pair",
                                about |-> SymDiff(DitaBases, IshBases)]}
             ELSE source = "cheetah"
        ELSE source = "word"

(***************************************************************************)
(* Casting: XMLContent.convert_to_*, LocalTopic._cast and its overrides,   *)
(* LocalTopic.cast_from_word, LocalMap.cast_topics_from_word.              *)
(***************************************************************************)
\* XMLContent.convert_to_concept / _task / _reference: [ok, c].  The conversion fails
\* when the tree has no root-level content element; otherwise the root tag, the
\* content element and the outputclass are those of the target type.
ConvertTo(c, tag, body, ocs, oc) ==
    IF c.body = NoBody THEN [ok |-> FALSE, c |-> c]
    ELSE [ok |-> TRUE,
          c |-> [c EXCEPT !.tag = tag, !.body = body,
                          !.oc = IF c.oc \in ocs THEN c.oc ELSE oc]]
convert_to_concept(c) ==
    ConvertTo(c, "concept", "conbody", {"context", "lpcontext", "explanation"}, "explanation")
convert_to_task(c) == ConvertTo(c, "task", "taskbody", {"procedure"}, "procedure")
convert_to_reference(c) ==
    ConvertTo(c, "reference", "refbody", {"referenceinformation", "legalinformation"},
              "referenceinformation")

\* which conversion the _cast of each class calls
Convert(cls, c) ==
    CASE cls \in {"LocalReferenceInformationTopic", "LocalLegalInformationTopic"} ->
            convert_to_reference(c)
      [] cls = "LocalTaskTopic" -> convert_to_task(c)
      [] OTHER -> convert_to_concept(c)

\* _cast as it would be with the write before the conversion
cast_write_first(d, t) ==
    LET conv == Convert(t.cls, t.content) IN
    [ok |-> conv.ok, topic |-> [t EXCEPT !.content = conv.c],
     disk |-> Write(d, t.name, TopicFile(t.content))]

\* LocalTopic._cast (and the overrides): [ok, topic, disk]; when the conversion raises,
\* self.write() is not reached
cast(d, t) ==
    LET conv == Convert(t.cls, t.content) IN
    IF conv.ok
    THEN [ok |-> TRUE, topic |-> [t EXCEPT !.content = conv.c],
          disk |-> Write(d, t.name, TopicFile(conv.c))]
    ELSE [ok |-> FALSE, topic |-> t, disk |-> d]

\* cast_from_word as it would be without the try/except
cast_from_word_raising(d, t) ==
    LET res == cast(d, t) IN
    [ok |-> res.ok, topic |-> res.topic, disk |-> res.disk, surfaced |-> ~res.ok,
     debug |-> FALSE]

\* LocalTopic.cast_from_word: [ok, topic, disk, surfaced, debug]; surfaced says that
\* an exception reaches the caller, debug that logger.debug was called
cast_from_word(d, t) ==
    LET res == cast(d, t) IN
    [ok |-> res.ok, topic |-> res.topic, disk |-> res.disk, surfaced |-> FALSE,
     debug |-> ~res.ok]

(***************************************************************************)
(* Specification SpecCast: a map of Word-derived topics and the two cast   *)
(* operations.  steps records every cast_from_word call.                   *)
(***************************************************************************)
CastKind(cls, tag, oc, body) == [cls |-> cls, tag |-> tag, oc |-> oc, body |-> body]
CastPool ==
    { CastKind("LocalTopic", "topic", "explanation", "body"),
      CastKind("LocalTopic", "topic", "explanation", NoBody),
      CastKind("LocalConceptTopic", "topic", "context", "body"),
      CastKind("LocalTaskTopic", "topic", "procedure", "body"),
      CastKind("LocalTaskTopic", "task", "procedure", "taskbody"),
      CastKind("LocalReferenceInformationTopic", "topic", "referenceinformation", "body"),
      CastKind("LocalLegalInformationTopic", "topic", "legalinformation", NoBody),
      CastKind("LocalLegalInformationTopic", "concept", "legalinformation", "conbody") }

CastTopic(i, k) ==
    [id |-> i, name |-> FreshName(i), cls |-> k.cls,
     content |-> Content(i, k.tag, k.oc, TRevHist, {}, <<>>, k.body),
     ish |-> NoIsh, children |-> <<>>, images |-> {}]

CastInit ==
    \E n \in 1..MaxTopics : \E kinds \in [1..n -> CastPool] :
        LET ts == [i \in 1..n |-> CastTopic(i, kinds[i])]
            r == [i \in 1..n |-> [href |-> ts[i].name, depth |-> 0]]
        IN /\ topics = ts /\ refs = r /\ mapTitle = InitMapTitle /\ source = "word"
           /\ disk = [f \in {ts[i].name : i \in 1..n} \cup {MapName} |->
                        IF f = MapName THEN MapFile(r, InitMapTitle)
                        ELSE TopicFile(ts[CHOOSE i \in 1..n : ts[i].name = f].content)]
           /\ pc = "idle" /\ idx = 0 /\ reps = <<>> /\ counter = 0
           /\ passes = 0 /\ rooted = FALSE /\ raised = FALSE
           /\ steps = <<>> /\ images = <<>> /\ imageFolder = <<>>
           /\ logged = {} /\ lastOp = "LocalMap" /\ start = NoStart /\ ui = NoUi

CastRecord(op, wide, i, d, t, res) ==
    [op |-> op, wide |-> wide, i |-> i, ok |-> res.ok, surfaced |-> res.surfaced,
     debug |-> res.debug, treeBefore |-> t.content, tree |-> res.topic.content,
     fileBefore |-> d[res.topic.name], file |-> res.disk[res.topic.name]]

DebugLog(recs) ==
    {[level |-> "debug", msg |-> "Cannot cast", about |-> recs[k].i] :
        k \in {j \in DOMAIN recs : recs[j].debug}}

\* topic.cast_from_word() on one topic of the map
CastFromWord ==
    /\ pc = "idle" /\ passes < MaxPasses
    /\ \E i \in DOMAIN topics :
        LET res == cast_from_word(disk, topics[i])
            rec == CastRecord(passes + 1, FALSE, i, disk, topics[i], res)
        IN /\ topics' = [topics EXCEPT ![i] = res.topic]
           /\ disk' = res.disk
           /\ raised' = res.surfaced
           /\ steps' = Append(steps, rec)
           /\ logged' = DebugLog(<<rec>>)
    /\ passes' = passes + 1 /\ lastOp' = "cast_from_word"
    /\ UNCHANGED <<ui, source, refs, mapTitle, pc, idx, reps, counter, rooted, images,
                   imageFolder, start>>

\* the loop of cast_topics_from_word from position k on: [disk, topics, recs, raised]
RECURSIVE CastLoop(_, _, _, _, _)
CastLoop(d, ts, k, recs, op) ==
    IF k > Len(ts) THEN [disk |-> d, topics |-> ts, recs |-> recs, raised |-> FALSE]
    ELSE LET res == cast_from_word(d, ts[k])
             rec == CastRecord(op, TRUE, k, d, ts[k], res)
         IN IF res.surfaced
            THEN [disk |-> res.disk, topics |-> ts, recs |-> Append(recs, rec),
                  raised |-> TRUE]
            ELSE CastLoop(res.disk, [ts EXCEPT ![k] = res.topic], k + 1,
                          Append(recs, rec), op)

\* LocalMap.cast_topics_from_word()
CastTopicsFromWord ==
    /\ pc = "idle" /\ passes < MaxPasses
    /\ LET out == CastLoop(disk, topics, 1, <<>>, passes + 1) IN
        /\ topics' = out.topics /\ disk' = out.disk /\ raised' = out.raised
        /\ steps' = steps \o out.recs
        /\ logged' = DebugLog(out.recs)
    /\ passes' = passes + 1 /\ lastOp' = "cast_topics_from_word"
    /\ UNCHANGED <<ui, source, refs, mapTitle, pc, idx, reps, counter, rooted, images,
                   imageFolder, start>>

NextCast == CastFromWord \/ CastTopicsFromWord

SpecCast == CastInit /\ [][NextCast]_vars

RECURSIVE StripNonWord(_)
StripNonWord(s) ==
    IF s = <<>> THEN <<>>
    ELSE (IF IsWord(Head(s)) THEN <<Head(s)>> ELSE <<>>) \o StripNonWord(Tail(s))

\* '_'.join(s.split(' '))
JoinUnderscore(s) == [k \in 1..Len(s) |-> IF s[k] = " " THEN "_" ELSE s[k]]

\* generate_name as it would be without the re.sub of line 705
generate_name_unstripped(href, img, prefix) ==
    LET name == IF img.temp_title # NoTitle THEN JoinUnderscore(img.temp_title)
                ELSE BaseName(LastSegment(href))
    IN <<"i", "m", "g", "_">> \o prefix \o <<"_">> \o name \o <<ExtOf(href)>>

\* Image.generate_name(prefix) of the image constructed with href
generate_name(href, img, prefix) ==
    LET name == IF img.temp_title # NoTitle THEN JoinUnderscore(img.temp_title)
                ELSE BaseName(LastSegment(href))
    IN <<"i", "m", "g", "_">> \o prefix \o <<"_">> \o StripNonWord(name) \o <<ExtOf(href)>>

\* the orders in which a set can be iterated
Orders(S) ==
    {o \in [1..Cardinality(S) -> S] : \A a, b \in 1..Cardinality(S) : a # b => o[a] # o[b]}

\* image_uses_in_topic after topic i is added to the uses of image h (lines 354-355)
AddUse(uses, i, h) ==
    LET pos == {k \in DOMAIN uses : uses[k].img = h} IN
    IF pos = {} THEN Append(uses, [img |-> h, topics |-> <<i>>])
    ELSE [uses EXCEPT ![CHOOSE k \in pos : TRUE].topics = Append(@, i)]

\* the state of the counting loop: titles and image_uses_in_topic, the images, the
\* number of turns taken, and for each image the count and the turn of its last
\* temp_title
CountStart(imgs) ==
    [titles |-> <<>>, imgs |-> imgs, uses |-> <<>>, turn |-> 0,
     last |-> [h \in DOMAIN imgs |-> [count |-> 0, turn |-> 0]]]

\* the inner loop body as it would be if a repeated title got no suffix
CountUseNoSuffix(st, i, h) ==
    LET t == st.imgs[h].title
        n == IF t \in DOMAIN st.titles THEN st.titles[t] + 1 ELSE 1
    IN IF t = NoTitle
       THEN [st EXCEPT !.uses = AddUse(@, i, h), !.turn = @ + 1]
       ELSE [titles |-> [x \in DOMAIN st.titles \cup {t} |->
                            IF x = t THEN n ELSE st.titles[x]],
             imgs |-> [st.imgs EXCEPT ![h].temp_title = t],
             uses |-> AddUse(st.uses, i, h), turn |-> st.turn + 1,
             last |-> [st.last EXCEPT ![h] = [count |-> n, turn |-> st.turn + 1]]]

\* lines 346-355, one turn of the inner loop: image h of topic i
CountUse(st, i, h) ==
    LET t == st.imgs[h].title
        seen == t \in DOMAIN st.titles
        n == IF seen THEN st.titles[t] + 1 ELSE 1
        temp == IF seen THEN t \o <<" ">> \o Str(n) ELSE t
    IN IF t = NoTitle
       THEN [st EXCEPT !.uses = AddUse(@, i, h), !.turn = @ + 1]
       ELSE [titles |-> [x \in DOMAIN st.titles \cup {t} |->
                            IF x = t THEN n ELSE st.titles[x]],
             imgs |-> [st.imgs EXCEPT ![h].temp_title = temp],
             uses |-> AddUse(st.uses, i, h), turn |-> st.turn + 1,
             last |-> [st.last EXCEPT ![h] = [count |-> n, turn |-> st.turn + 1]]]

RECURSIVE CountTopic(_, _, _, _)
CountTopic(st, i, order, k) ==
    IF k > Len(order) THEN st ELSE CountTopic(CountUse(st, i, order[k]), i, order, k + 1)

\* lines 342-355: [titles, imgs, uses]; orders[i] is the order in which the set
\* topic.images of topic i is iterated
RECURSIVE CountUses(_, _, _, _)
CountUses(st, ts, orders, i) ==
    IF i > Len(ts) THEN st
    ELSE CountUses(CountTopic(st, i, orders[i], 1), ts, orders, i + 1)

\* lines 375-381 for one topic: the image tags whose href is the image's href
RewriteImageTags(t, href, new_href) ==
    [t EXCEPT !.content.figs =
        [k \in DOMAIN @ |-> IF @[k].href = href THEN [@[k] EXCEPT !.href = new_href] ELSE @[k]]]

Range(q) == {q[k] : k \in DOMAIN q}

ImageRecord(op, u, img, last, prefix, name, new, outcome) ==
    [op |-> op, img |-> u.img, prefix |-> prefix, name |-> name, new |-> new,
     outcome |-> outcome, users |-> Range(u.topics),
     title |-> img.title, temp_title |-> img.temp_title,
     count |-> last.count, turn |-> last.turn]

\* lines 360-369 with the target check left out
rename_outcome_no_target_check(d, current_path, new_path) ==
    IF current_path = new_path THEN "already renamed"
    ELSE IF ~Exists(d, current_path) THEN "not found"
    ELSE "renamed"

\* lines 360-369: the three tests that skip an image
rename_outcome(d, current_path, new_path) ==
    IF current_path = new_path THEN "already renamed"
    ELSE IF ~Exists(d, current_path) THEN "not found"
    ELSE IF Exists(d, new_path) THEN "target exists"
    ELSE "renamed"

ImageFiles(d) == {n \in DOMAIN d : d[n].kind = "image"}
\* the image references of the topics ts, in memory and in their files in d
ImageTags(d, ts) ==
    [i \in DOMAIN ts |->
        [memory |-> [f \in DOMAIN ts[i].content.figs |-> ts[i].content.figs[f].href],
         file |-> [f \in DOMAIN d[ts[i].name].body.figs |-> d[ts[i].name].body.figs[f].href]]]

\* lines 357-381, from entry k of image_uses_in_topic on: [disk, topics, recs]
RECURSIVE RenameImages(_, _, _, _, _, _, _, _, _, _)
RenameImages(d, ts, imgs, last, uses, fldr, prefix, k, recs, op) ==
    IF k > Len(uses) THEN [disk |-> d, topics |-> ts, recs |-> recs]
    ELSE LET u == uses[k]
             new_name == generate_name(u.img, imgs[u.img], prefix)
             current_path == u.img
             new_path == fldr \o new_name
             outcome == rename_outcome(d, current_path, new_path)
             d1 == file_rename(d, current_path, new_path).disk
             ts1 == [i \in DOMAIN ts |->
                        IF i \in Range(u.topics)
                        THEN RewriteImageTags(ts[i], u.img, new_path) ELSE ts[i]]
             d2 == [n \in DOMAIN d1 |->
                        IF \E i \in Range(u.topics) : ts1[i].name = n
                        THEN TopicFile(ts1[CHOOSE i \in Range(u.topics) :
                                                ts1[i].name = n].content)
                        ELSE d1[n]]
             dN == IF outcome = "renamed" THEN d2 ELSE d
             tsN == IF outcome = "renamed" THEN ts1 ELSE ts
             rec == ImageRecord(op, u, imgs[u.img], last[u.img], prefix, new_name, new_path,
                                outcome)
                    @@ [same |-> current_path = new_path,
                        srcExisted |-> Exists(d, current_path),
                        dstExisted |-> Exists(d, new_path),
                        fileRenamed |-> ImageFiles(dN) # ImageFiles(d),
                        tagsChanged |-> ImageTags(dN, tsN) # ImageTags(d, ts)]
         IN RenameImages(dN, tsN, imgs, last, uses, fldr, prefix, k + 1, Append(recs, rec), op)

ImageLog(recs) ==
    {[level |-> IF recs[k].outcome = "already renamed" THEN "debug" ELSE "warning",
      msg |-> recs[k].outcome, about |-> recs[k].img] :
        k \in {j \in DOMAIN recs : recs[j].outcome # "renamed"}}

(***************************************************************************)
(* Specification SpecImages: a Word project folder with figures in its     *)
(* topics, LocalMap(file_path) on it, then edit_image_names.               *)
(***************************************************************************)
Fig2 == <<"f", "i", "g", "2", PngExt>>
FigDash == <<"f", "-", "1", PngExt>>
TTab == <<"O", "\t", "w">>
MediaFig1 == <<"media/">> \o Fig1
ImagePrefixes == {<<"p", "r", "o", "j">>}
TakenImage == <<"i", "m", "g", "_", "p", "r", "o", "j", "_">> \o TOverview \o <<PngExt>>
Fig(href, title) == [href |-> href, title |-> title]
FigPool ==
    { <<>>,
      <<Fig(Fig1, TOverview)>>,
      <<Fig(Fig1, NoTitle)>>,
      <<Fig(MediaFig1, TOverview)>>,
      <<Fig(Fig2, TOverview)>>,
      <<Fig(Fig1, TOverview), Fig(Fig2, <<" ">> \o TOverview)>>,
      <<Fig(Fig1, TTab)>>,
      <<Fig(FigDash, NoTitle)>>,
      <<Fig(TakenImage, TOverview)>> }
ImageSets == {{Fig1}, {Fig1, Fig2}, {MediaFig1}, {Fig1, TakenImage}, {Fig1, FigDash},
              {Fig1, Fig2, TakenImage}}

ImagesInit ==
    \E n \in 1..MaxTopics : \E figs \in [1..n -> FigPool] :
    \E img \in ImageSets : \E sub \in SUBSET {FolderName("media/")} :
        LET r == [i \in 1..n |-> [href |-> FreshName(i), depth |-> 0]]
            names == {FreshName(i) : i \in 1..n}
        IN /\ (MediaFig1 \in img => sub # {})
           /\ disk = [f \in {MapName} \cup names \cup sub \cup img |->
                        IF f = MapName THEN MapFile(r, InitMapTitle)
                        ELSE IF f \in names
                        THEN LET i == CHOOSE j \in 1..n : FreshName(j) = f IN
                             TopicFile(Content(i, "concept", "explanation", TRevHist, {},
                                               figs[i], "conbody"))
                        ELSE IF f \in sub THEN [kind |-> "dir", body |-> <<>>]
                        ELSE [kind |-> "image", body |-> <<>>]]
           /\ topics = <<>> /\ refs = <<>> /\ mapTitle = NoTitle /\ source = "(none)"
           /\ pc = "new" /\ idx = 0 /\ reps = <<>> /\ counter = 0
           /\ passes = 0 /\ rooted = FALSE /\ raised = FALSE
           /\ steps = <<>> /\ images = <<>> /\ imageFolder = <<>>
           /\ logged = {} /\ lastOp = "(none)" /\ start = NoStart /\ ui = NoUi

\* LocalMap.edit_image_names(image_prefix)
EditImageNames ==
    /\ pc = "idle" /\ passes < MaxPasses
    /\ \E prefix \in ImagePrefixes :
       \E orders \in [DOMAIN topics -> UNION {Orders(topics[i].images) : i \in DOMAIN topics}] :
        /\ \A i \in DOMAIN topics : orders[i] \in Orders(topics[i].images)
        /\ LET st == CountUses(CountStart(images), topics, orders, 1)
               out == RenameImages(disk, topics, st.imgs, st.last, st.uses, imageFolder,
                                   prefix, 1, <<>>, passes + 1)
           IN /\ images' = st.imgs
              /\ disk' = out.disk /\ topics' = out.topics
              /\ steps' = steps \o out.recs
              /\ logged' = ImageLog(out.recs)
    /\ passes' = passes + 1 /\ lastOp' = "edit_image_names"
    /\ UNCHANGED <<ui, source, refs, mapTitle, pc, idx, reps, counter, rooted, raised,
                   imageFolder, start>>

NextImages == Construct \/ EditImageNames

SpecImages == ImagesInit /\ [][NextImages]_vars

\* C9: after edit_image_names, the disambiguated title of an image differs from its
\* title only if another image of the same pass has the same title, and an image
\* renamed under its own title gets the name img_<prefix>_<title><ext>.
C9_SuffixCountsImages ==
    \A k \in DOMAIN steps :
        steps[k].title # NoTitle =>
            \/ steps[k].temp_title = steps[k].title
            \/ \E j \in DOMAIN steps :
                  /\ steps[j].op = steps[k].op /\ steps[j].img # steps[k].img
                  /\ steps[j].title = steps[k].title

\* C10: for every image edit_image_names renamed on disk, every topic that took the
\* image at discovery has no image reference left that resolves to the old href, has a
\* reference equal to the new href, and is on disk as it is in memory.
C10_ImageRenamePropagated ==
    \A k \in DOMAIN steps :
        steps[k].outcome = "renamed" =>
            \A i \in steps[k].users :
                LET figs == topics[i].content.figs IN
                /\ \A f \in DOMAIN figs : ~Matches(figs[f].href, steps[k].img)
                /\ \E f \in DOMAIN figs : figs[f].href = steps[k].new
                /\ disk[topics[i].name] = TopicFile(topics[i].content)

SameTitle(k, j) ==
    /\ steps[k].op = steps[j].op /\ steps[k].img # steps[j].img
    /\ steps[k].title # NoTitle /\ steps[k].title = steps[j].title

\* C11: within one edit_image_names pass two distinct images with the same title get
\* distinct disambiguated titles, the later one counted a strictly higher suffix, and
\* distinct generated names; and generate_name gives the same name for the same
\* disambiguated title, href and prefix.
C11_NoImageNameCollisions ==
    /\ \A k \in DOMAIN steps : \A j \in DOMAIN steps :
          SameTitle(k, j) =>
              /\ steps[k].temp_title # steps[j].temp_title
              /\ steps[k].name # steps[j].name
              /\ steps[k].turn < steps[j].turn => steps[k].count < steps[j].count
    /\ \A k \in DOMAIN steps :
          steps[k].title # NoTitle =>
              steps[k].temp_title = IF steps[k].count = 1 THEN steps[k].title
                                    ELSE steps[k].title \o <<" ">> \o Str(steps[k].count)
    /\ \A k \in DOMAIN steps : \A j \in DOMAIN steps :
          (/\ steps[k].img = steps[j].img /\ steps[k].prefix = steps[j].prefix
           /\ steps[k].temp_title = steps[j].temp_title) => steps[k].name = steps[j].name
C11_Witness ==
    \E k \in DOMAIN steps : \E j \in DOMAIN steps :
        /\ SameTitle(k, j) /\ steps[k].turn < steps[j].turn
        /\ steps[k].outcome = "renamed" /\ steps[j].outcome = "renamed"
        /\ Exists(disk, steps[k].new) /\ Exists(disk, steps[j].new)

ImgPrefix(k) == <<"i", "m", "g", "_">> \o steps[k].prefix \o <<"_">>
Whitespace == {" ", "\t"}
WhitespaceToUnderscore(s) == [n \in 1..Len(s) |-> IF s[n] \in Whitespace THEN "_" ELSE s[n]]
HrefStem(href) == BaseName(LastSegment(href))

\* C12 as claimed: every generated name is 'img_' + prefix + '_' + S + extension, where
\* S is the disambiguated title with whitespace turned into underscores and non-word
\* characters stripped when there is one, and else the last segment of the href
\* without its extension.
C12_GeneratedNameAsClaimed ==
    \A k \in DOMAIN steps :
        steps[k].name =
            ImgPrefix(k) \o
            (IF steps[k].temp_title # NoTitle
             THEN StripNonWord(WhitespaceToUnderscore(steps[k].temp_title))
             ELSE HrefStem(steps[k].img)) \o <<ExtOf(steps[k].img)>>

\* C12 as the code has it: every generated name is 'img_' + prefix + '_' + S +
\* extension, where S is, with its non-word characters stripped, the disambiguated
\* title with each space character turned into an underscore when there is one, and
\* else the last segment of the href without its extension; and the image keeps the
\* title and the disambiguated title it had when the name was generated.
C12_GeneratedName ==
    \A k \in DOMAIN steps :
        /\ steps[k].name =
              ImgPrefix(k) \o
              StripNonWord(IF steps[k].temp_title # NoTitle
                           THEN [n \in 1..Len(steps[k].temp_title) |->
                                    IF steps[k].temp_title[n] = " " THEN "_"
                                    ELSE steps[k].temp_title[n]]
                           ELSE HrefStem(steps[k].img)) \o <<ExtOf(steps[k].img)>>
        /\ steps[k].op = passes =>
              images[steps[k].img] = [title |-> steps[k].title,
                                      temp_title |-> steps[k].temp_title]
C12_Witness ==
    /\ \E k \in DOMAIN steps :
          /\ \E n \in DOMAIN steps[k].temp_title : steps[k].temp_title[n] = "\t"
          /\ steps[k].outcome = "renamed"
    /\ \E k \in DOMAIN steps :
          /\ steps[k].temp_title = NoTitle
          /\ \E n \in DOMAIN steps[k].img : ~IsWord(steps[k].img[n]) /\ n < Len(steps[k].img)
          /\ steps[k].outcome = "renamed"

(***************************************************************************)
(* Properties of rename_topics.                                            *)
(***************************************************************************)
RenameReturned == pc = "idle" /\ lastOp = "rename_topics" /\ ~raised

\* C1: after rename_topics returns, for every topic T of the map: every other topic's
\* link that pointed to T's name at the call points to T's name now, every reference
\* entry of the map that had T's name at the call has T's name now, and a file of that
\* name exists in the folder.
C1_ReferentialIntegrity ==
    RenameReturned =>
        \A j \in DOMAIN start.names :
            /\ \A k \in DOMAIN start.names \ {j} :
                  start.names[j] \in start.links[k] => topics[j].name \in topics[k].content.links
            /\ \A e \in DOMAIN start.refs :
                  start.refs[e].href = start.names[j] => refs[e].href = topics[j].name
            /\ Exists(disk, topics[j].name)

\* C2: whenever no operation is running, every reference entry of the map has exactly
\* one topic of map.topics with the entry's href as file name, and every topic of
\* map.topics has a reference entry with its file name.
C2_MapTopicCorrespondence ==
    pc = "idle" =>
        /\ \A e \in DOMAIN refs :
              Cardinality({k \in DOMAIN topics : topics[k].name = refs[e].href}) = 1
        /\ \A k \in DOMAIN topics : \E e \in DOMAIN refs : refs[e].href = topics[k].name

\* C3: for every topic of the running pass whose canonical name differs from its
\* current name, when update_name has ended either the file is renamed, no other topic
\* links to the old name, no reference entry has the old name and the sidecar (if any)
\* is renamed, or none of these has been touched.
AllApplied(fx) ==
    /\ fx.fileRenamed /\ ~fx.linksLeft /\ ~fx.refsLeft
    /\ fx.hasIsh => fx.ishRenamed
NoneApplied(fx) ==
    ~fx.fileRenamed /\ ~fx.linksChanged /\ ~fx.refsChanged /\ ~fx.ishRenamed
C3_RenameAtomic ==
    \A k \in DOMAIN steps :
        (steps[k].outcome = "processed" /\ steps[k].new # steps[k].old) =>
            AllApplied(steps[k]) \/ NoneApplied(steps[k])

\* C4: when the target path of a topic exists already, update_name logs the warning,
\* the file of the old name is still in the folder, no exception leaves update_name,
\* and the loop goes on to the topics after it: the pass is either still running
\* behind that topic, or has returned with every topic visited, or was ended by the
\* exception of a later topic.
C4_ExistingTargetSkipped ==
    (pc = "rename" \/ lastOp = "rename_topics") =>
        \A k \in DOMAIN steps :
            steps[k].targetExisted =>
                /\ "New path already exists" \in steps[k].warn
                /\ [level |-> "warning", msg |-> "New path already exists", about |-> k] \in logged
                /\ steps[k].oldKept /\ ~steps[k].fileRenamed
                /\ steps[k].outcome = "processed"
                /\ \/ pc = "rename" /\ idx > k
                   \/ pc = "idle" /\ ~raised /\ Len(steps) = Len(topics)
                   \/ pc = "idle" /\ raised /\ Len(steps) > k
C4_Witness ==
    \E k \in DOMAIN steps :
        /\ steps[k].targetExisted /\ steps[k].new # steps[k].old
        /\ k < Len(steps) /\ steps[k + 1].outcome = "processed" /\ steps[k + 1].fileRenamed

\* C5: the k-th topic of a pass (in the order they are processed) with a given title
\* text that is renamed gets the canonical name of its title with the suffix _k when
\* k > 1 and without suffix when k = 1, and a reference entry of the map that had its
\* old name has the new one.
Occurrence(k) ==
    Cardinality({j \in 1..k : steps[j].outcome # "not a doctype" /\ steps[j].title = steps[k].title})
CanonicalName(title, oc) == create_new_name(<<>>, title, oc, 1).name
C13_SidecarInSync ==
    (source = "cheetah" /\ pc = "idle" /\ ~raised) =>
        /\ \A i \in DOMAIN topics :
              topics[i].ish # NoIsh =>
                  /\ Exists(disk, topics[i].name)
                  /\ Exists(disk, topics[i].ish.name)
                  /\ topics[i].ish.name = IshNameOf(topics[i].name)
                  /\ disk[topics[i].ish.name] = IshFile(BaseName(topics[i].name))
        /\ \A k \in DOMAIN steps : steps[k].ishRenamed => steps[k].fileRenamed

\* the reference entries of the map file whose topic file is there while the file
\* with its base name and the sidecar extension is missing or is no sidecar document
Unpaired ==
    {k \in DOMAIN disk[MapName].body.refs :
        LET href == disk[MapName].body.refs[k].href IN
        /\ Exists(disk, href)
        /\ ~(Exists(disk, IshNameOf(href)) /\ disk[IshNameOf(href)].kind = "ish")}

\* C14: under provenance 'cheetah' every discovered topic has the sidecar named by its
\* base name and the sidecar extension, read from that file, and construction fails
\* when a referenced topic's sidecar file is missing or is not a sidecar document;
\* under provenance 'word' no topic has a sidecar.
C14_SidecarPairing ==
    /\ (pc = "idle" /\ source = "cheetah") =>
          \A i \in DOMAIN topics :
              /\ topics[i].ish # NoIsh
              /\ topics[i].ish.name = IshNameOf(topics[i].name)
              /\ Exists(disk, topics[i].ish.name)
              /\ disk[topics[i].ish.name] = IshFile(topics[i].ish.ftitle)
    /\ (pc = "idle" /\ source = "word") => \A i \in DOMAIN topics : topics[i].ish = NoIsh
    /\ (pc # "new" /\ source = "cheetah" /\ Unpaired # {}) => (pc = "failed" /\ raised)
C14_Witness ==
    /\ pc = "failed" /\ source = "cheetah" /\ raised
    /\ \A k \in DOMAIN disk[MapName].body.refs : Exists(disk, disk[MapName].body.refs[k].href)
    /\ Len(disk[MapName].body.refs) = 2
    /\ Exists(disk, IshNameOf(FileA)) /\ disk[IshNameOf(FileA)] = NotIshFile
    /\ Exists(disk, IshNameOf(FileB))

KnownClasses ==
    {"referenceinformation", "procedure", "legalinformation", "context", "lpcontext",
     "explanation"}

\* C15: the outputclass of a discovered topic is the outputclass attribute of its file
\* when it has one, else 'context' when its reference entry has child entries, else the
\* type inferred from the tree; the topic's class is the one of that outputclass, the
\* plain LocalTopic for an outputclass outside the known set; and the topic's tree in
\* memory carries the resolved outputclass.
C15_TypePrecedence ==
    pc = "idle" =>
        \A i \in DOMAIN topics :
            LET c == disk[topics[i].name].body
                nested == DirectChildren(refs, i) # {}
                oc == IF c.oc # NoOc THEN c.oc
                      ELSE IF nested THEN "context" ELSE detect_type(c)
            IN /\ topics[i].content.oc = oc
               /\ topics[i].cls = IF oc \in KnownClasses THEN ClassOf(oc) ELSE "LocalTopic"
C15_Witness ==
    /\ pc = "idle" /\ Len(topics) = 2
    /\ disk[topics[1].name].body.oc = "procedure"
    /\ DirectChildren(refs, 1) = {2}
    /\ topics[1].cls = "LocalTaskTopic" /\ topics[1].content.oc = "procedure"
    /\ topics[2].cls = "LocalTaskTopic"

\* C20: after construction the image folder is a subfolder 'media' or 'images' of the
\* map's folder iff the provenance is 'word' and such a subfolder exists, and else the
\* map's folder; the map's images are the image files of that folder, each under the
\* href '<subfolder>/<file name>', or the file name alone in the map's folder.
C20_ImageFolderProbe ==
    pc = "idle" =>
        /\ imageFolder # <<>> <=>
              (source = "word" /\ \E tok \in FolderTokens : IsDir(disk, FolderName(tok)))
        /\ imageFolder # <<>> =>
              /\ Len(imageFolder) = 1 /\ imageFolder[1] \in FolderTokens
              /\ IsDir(disk, FolderName(imageFolder[1]))
        /\ DOMAIN images =
              {n \in DOMAIN disk :
                  /\ disk[n].kind = "image"
                  /\ IF imageFolder = <<>> THEN n[1] \notin FolderTokens
                     ELSE n[1] = imageFolder[1]}
C20_Witness ==
    /\ pc = "idle" /\ source = "word"
    /\ IsDir(disk, FolderName("media/")) /\ ~IsDir(disk, FolderName("images/"))
    /\ Exists(disk, Fig1) /\ Exists(disk, <<"media/">> \o Fig1)
    /\ imageFolder = <<"media/">>
    /\ DOMAIN images = {<<"media/">> \o Fig1}
    /\ Len(topics) = 2

(***************************************************************************)
(* Specification SpecName: one topic with a title drawn from the titles of *)
(* bounded length, and create_new_name on it.                              *)
(***************************************************************************)
TitleAlphabet == {"A", "b", " ", "U+00E9"}
TFiveRun == <<"A", "b", " ", "-", " ", "-", " ", "b">>
Titles == UNION {[1..n -> TitleAlphabet] : n \in 0..MaxTitleLen} \cup {TFiveRun, TRevHist}
NameClasses == OutputClasses \cup {"glossary"}

NameInit ==
    \E title \in Titles, oc \in NameClasses :
        LET t == [id |-> 1, name |-> FreshName(1), cls |-> ClassOf(oc),
                  content |-> Content(1, "concept", oc, title, {}, <<>>, "conbody"),
                  ish |-> NoIsh, children |-> <<>>, images |-> {}]
            r == <<[href |-> t.name, depth |-> 0]>>
        IN /\ topics = <<t>> /\ refs = r /\ mapTitle = InitMapTitle /\ source = "word"
           /\ disk = [f \in {t.name, MapName} |->
                        IF f = MapName THEN MapFile(r, InitMapTitle)
                        ELSE TopicFile(t.content)]
           /\ pc = "idle" /\ idx = 0 /\ reps = <<>> /\ counter = 0
           /\ passes = 0 /\ rooted = FALSE /\ raised = FALSE
           /\ steps = <<>> /\ images = <<>> /\ imageFolder = <<>>
           /\ logged = {} /\ lastOp = "LocalMap" /\ start = NoStart /\ ui = NoUi

\* topic.create_new_name(num_rep) on the topic of the map
CreateNewName ==
    /\ pc = "idle" /\ passes = 0
    /\ \E num_rep \in 1..2 :
        LET t == topics[1]
            res == create_new_name(t.name, t.content.title, t.content.oc, num_rep)
        IN /\ steps' = <<[title |-> t.content.title, oc |-> t.content.oc,
                          num_rep |-> num_rep, selfName |-> t.name,
                          err |-> res.err, name |-> res.name]>>
           /\ raised' = res.err
    /\ passes' = 1 /\ lastOp' = "create_new_name"
    /\ UNCHANGED <<ui, disk, source, refs, mapTitle, topics, pc, idx, reps, counter, rooted,
                   images, imageFolder, logged, start>>

NextName == CreateNewName

SpecName == NameInit /\ [][NextName]_vars

HasDoubleUnderscore(n) == \E k \in 1..(Len(n) - 1) : n[k] = "_" /\ n[k + 1] = "_"

\* C16: every name create_new_name derives from a title, before the repetition suffix,
\* has no two consecutive underscores, does not end in an underscore, consists of word
\* characters only, and starts with the prefix of the topic's outputclass.
C16_CanonicalNameShape ==
    \A k \in DOMAIN steps :
        (~steps[k].err /\ steps[k].name # steps[k].selfName /\ steps[k].num_rep = 1) =>
            LET n == steps[k].name IN
            /\ ~HasDoubleUnderscore(n)
            /\ n[Len(n)] # "_"
            /\ \A j \in DOMAIN n : IsWord(n[j])
            /\ steps[k].oc \in OutputClasses =>
                  SubSeq(n, 1, 2) = prefixes(steps[k].oc)

\* C17: a rename_topics pass never raises, and when it is over every topic of the map
\* has been processed.
C17_BatchContinues ==
    (lastOp = "rename_topics" /\ pc = "idle") =>
        /\ ~raised
        /\ \A i \in DOMAIN topics : \E k \in DOMAIN steps : steps[k].i = i

\* the position in the map, when the pass began, of the reference to topic i
RefPos(i) == CHOOSE p \in DOMAIN start.refs : start.refs[p].href = start.names[i]
OneToOne ==
    \A i \in DOMAIN start.names :
        Cardinality({p \in DOMAIN start.refs : start.refs[p].href = start.names[i]}) = 1

\* C18: a rename_topics pass takes the topics in the order of their references in the
\* map, and an update_name rewrites links and the map's reference only when it has
\* renamed the topic's file.
C18_PropagationAfterRename ==
    lastOp = "rename_topics" =>
        /\ OneToOne =>
              \A a \in DOMAIN steps : \A b \in DOMAIN steps :
                  a < b => RefPos(steps[a].i) < RefPos(steps[b].i)
        /\ \A k \in DOMAIN steps :
              (steps[k].linksChanged \/ steps[k].refsChanged) => steps[k].fileRenamed

\* C19: create_root_concept leaves the reference to the root concept as the first and
\* only top-level reference of the map, every former reference entry once, in its
\* former order and one level deeper, beneath it, the given title as the map's title,
\* and the map file written so.
C19_RootConceptStructure ==
    [][(~rooted /\ rooted') =>
          /\ Len(refs') = Len(refs) + 1
          /\ refs'[1] = [href |-> RootConceptName, depth |-> 0]
          /\ \A k \in DOMAIN refs :
                /\ refs'[k + 1].href = refs[k].href
                /\ refs'[k + 1].depth = refs[k].depth + 1
          /\ mapTitle' \in MapTitles
          /\ disk'[MapName] = MapFile(refs', mapTitle')
          /\ Exists(disk', RootConceptName)
          /\ topics'[Len(topics')].name = RootConceptName]_vars
C19_Witness ==
    /\ rooted /\ lastOp = "create_root_concept"
    /\ Len(refs) = 3 /\ refs[1].href = RootConceptName
    /\ refs[2].depth = 1 /\ refs[3].depth = 2
    /\ mapTitle \in MapTitles

\* C30: construction of the map, with the discovery of its topics, leaves every file of
\* the folder as it was, although the trees in memory get the resolved outputclass and
\* an inserted shortdesc element.
C30_NoAutoFlush == [][pc = "new" => disk' = disk]_vars
C30_Witness ==
    /\ pc = "idle" /\ Len(topics) = 2
    /\ topics[1].name = FileA /\ topics[2].name = FileB
    /\ disk[FileA].body.oc = NoOc /\ topics[1].content.oc # NoOc
    /\ disk[FileB].body.shortdesc = "absent" /\ topics[2].content.shortdesc = "empty"

Skipped(k) == steps[k].same \/ ~steps[k].srcExisted \/ steps[k].dstExisted
UsedImages == UNION {topics[i].images : i \in DOMAIN topics}

\* C25: when edit_image_names meets an image whose source path equals its target path,
\* whose source file is missing or whose target path exists, it renames no image file
\* and changes no image reference of a topic, in memory or on disk, raises nothing, and
\* the pass still takes every image the topics use.
C25_SkippedImagesUntouched ==
    \A k \in DOMAIN steps :
        Skipped(k) =>
            /\ ~steps[k].fileRenamed /\ ~steps[k].tagsChanged
            /\ steps[k].outcome \in {"already renamed", "not found", "target exists"}
            /\ ~raised
            /\ {steps[j].img : j \in {m \in DOMAIN steps : steps[m].op = steps[k].op}}
                   = UsedImages
C25_Witness ==
    \E k \in DOMAIN steps : \E j \in DOMAIN steps : \E m \in DOMAIN steps :
        /\ steps[k].dstExisted /\ ~steps[k].same /\ steps[k].srcExisted
        /\ j > k /\ steps[j].op = steps[k].op /\ steps[j].outcome = "renamed"
        /\ ~steps[m].srcExisted /\ steps[m].outcome = "not found"

\* C28: each topic's image set is a subset of the map's image set and holds exactly the
\* map images that the figures of the topic's tree reference.
C28_ImageSharing ==
    pc = "idle" =>
        \A i \in DOMAIN topics :
            /\ topics[i].images \subseteq DOMAIN images
            /\ topics[i].images =
                  {h \in DOMAIN images :
                      \E f \in DOMAIN topics[i].content.figs :
                          Matches(topics[i].content.figs[f].href, h)}

Discovered == pc = "idle" /\ passes = 0
\* the topics whose figures label the map image h, and the labelled figures of topic i
Labellers(h) ==
    {i \in DOMAIN topics :
        \E f \in DOMAIN topics[i].content.figs :
            /\ Matches(topics[i].content.figs[f].href, h)
            /\ topics[i].content.figs[f].title # NoTitle}
Labels(i, h) ==
    {f \in DOMAIN topics[i].content.figs :
        /\ Matches(topics[i].content.figs[f].href, h)
        /\ topics[i].content.figs[f].title # NoTitle}
Min(S) == CHOOSE x \in S : \A y \in S : x <= y
Max(S) == CHOOSE x \in S : \A y \in S : x >= y
TitleGiven(i, f) == Strip(topics[i].content.figs[f].title)

\* C29 as stated: after discovery the title of an image that topics label is a title
\* given by the first labelling topic in map reference order.
C29_FirstLabelWins ==
    Discovered =>
        \A h \in DOMAIN images :
            Labellers(h) # {} =>
                images[h].title \in
                    {TitleGiven(Min(Labellers(h)), f) : f \in Labels(Min(Labellers(h)), h)}
\* C29: after discovery the title of an image that topics label is the title of the last
\* labelled figure of the last labelling topic in map reference order; an image no topic
\* labels has no title.
C29_LastLabelWins ==
    Discovered =>
        \A h \in DOMAIN images :
            IF Labellers(h) = {} THEN images[h].title = NoTitle
            ELSE LET i == Max(Labellers(h)) IN
                 images[h].title = TitleGiven(i, Max(Labels(i, h)))
C29_Witness ==
    /\ Discovered
    /\ \E h \in DOMAIN images : \E i \in Labellers(h) : \E j \in Labellers(h) :
          /\ i < j /\ j = Max(Labellers(h))
          /\ \A f \in Labels(i, h) : \A g \in Labels(j, h) : TitleGiven(i, f) # TitleGiven(j, g)
          /\ images[h].title = TitleGiven(j, Max(Labels(j, h)))

\* a title rename_topics does not rename under: missing, sanitized to fewer than two
\* characters, or sanitized to the placeholder 'Rev'
Degenerate(title) ==
    \/ title = TNone
    \/ Len(Sanitize(title)) < 2
    \/ Sanitize(title) = <<"R", "e", "v">>

\* C24: the step of rename_topics on a topic whose title is missing, or is sanitized to
\* fewer than two characters or to 'Rev', changes no file, no topic (name, path, links)
\* and no reference entry of the map.
C24_DegenerateTitleUnchanged ==
    [][(pc = "rename" /\ idx <= Len(topics) /\ Degenerate(topics[idx].content.title))
          => (disk' = disk /\ topics' = topics /\ refs' = refs)]_vars
C24_Witness ==
    \E k \in DOMAIN steps : \E j \in DOMAIN steps :
        /\ steps[k].title = TRev /\ steps[k].outcome = "nothing to rename"
        /\ topics[steps[k].i].name = steps[k].old
        /\ j > k /\ steps[j].fileRenamed

\* C26: the i-th topic of the map is the topic of the i-th reference entry of the map in
\* document order.
C26_TopicOrder ==
    pc = "idle" =>
        /\ Len(topics) = Len(refs)
        /\ \A i \in DOMAIN topics : topics[i].name = refs[i].href

\* C27: children are held by context topics only, and every child has the path of some
\* topic of the map's topic list.
C27_ChildrenInTopics ==
    pc = "idle" =>
        \A i \in DOMAIN topics :
            /\ topics[i].children # <<>> => topics[i].content.oc \in {"context", "lpcontext"}
            /\ \A c \in DOMAIN topics[i].children :
                  \E k \in DOMAIN topics : topics[k].name = topics[i].children[c]

(***************************************************************************)
(* Specification SpecScan: a directory listing, and scan_folder on it.     *)
(***************************************************************************)
ScanPool ==
    { <<"a", DitaExt>>, <<"b", DitaExt>>, <<"a", IshExt>>,
      <<"a", ".", "b", DitaExt>>,
      <<"m", "e", "d", "i", "a">>,
      <<"a", ".">>,
      <<".", "a">>,
      <<"a", ".", "b">> }

ScanInit ==
    \E names \in SUBSET ScanPool :
        /\ disk = [n \in names |->
                      IF HasDot(n) THEN [kind |-> "xml", body |-> <<>>]
                      ELSE [kind |-> "dir", body |-> <<>>]]
        /\ topics = <<>> /\ refs = <<>> /\ mapTitle = NoTitle /\ source = "(none)"
        /\ pc = "new" /\ idx = 0 /\ reps = <<>> /\ counter = 0
        /\ passes = 0 /\ rooted = FALSE /\ raised = FALSE
        /\ steps = <<>> /\ images = <<>> /\ imageFolder = <<>>
        /\ logged = {} /\ lastOp = "(none)" /\ start = NoStart /\ ui = NoUi

\* LocalMap.scan_folder(fldr)
ScanFolder ==
    /\ pc = "new"
    /\ steps' = <<[listing |-> ListDir(disk, <<>>),
                   result |-> scan_folder(ListDir(disk, <<>>))]>>
    /\ pc' = "idle" /\ lastOp' = "scan_folder"
    /\ UNCHANGED <<ui, disk, source, refs, mapTitle, topics, idx, reps, counter, passes, rooted,
                   raised, images, imageFolder, logged, start>>

NextScan == ScanFolder

SpecScan == ScanInit /\ [][NextScan]_vars

\* base + '.' + ext as a name
Dotted(base, ext) ==
    base \o (IF ext # <<>> /\ ext[1] \in ExtTokens THEN ext ELSE <<".">> \o ext)
\* the text holds no dot (an extension token stands for a dot and the text after it)
DotFree(ext) ==
    /\ \A k \in DOMAIN ext : ext[k] # "."
    /\ \A k \in DOMAIN ext : ext[k] \in ExtTokens => Len(ext) = 1

\* C21: in the mapping scan_folder returns, every key is free of dots, every element of
\* a group joined to its key by a dot is an entry of the listing, every entry with a dot
\* is such a join for exactly one key and element, and the entries without a dot are in
\* no group.
C21_ScanFolderGrouping ==
    \A s \in DOMAIN steps :
        LET res == steps[s].result
            listing == steps[s].listing
        IN /\ \A e \in DOMAIN res :
                 /\ DotFree(e) /\ res[e] # {}
                 /\ \A b \in res[e] : Dotted(b, e) \in listing
           /\ \A n \in listing :
                 IF HasDot(n)
                 THEN Cardinality({p \in {<<e, b>> : e \in DOMAIN res, b \in UNION {res[x] : x \in DOMAIN res}} :
                                      p[2] \in res[p[1]] /\ Dotted(p[2], p[1]) = n}) = 1
                 ELSE \A e \in DOMAIN res : n \notin res[e]
C21_Witness ==
    \E s \in DOMAIN steps :
        /\ {<<"a", ".", "b", DitaExt>>, <<"a", DitaExt>>, <<"b", DitaExt>>,
            <<"m", "e", "d", "i", "a">>, <<"a", ".">>} \subseteq steps[s].listing
        /\ steps[s].result[<<DitaExt>>] = {<<"a", ".", "b">>, <<"a">>, <<"b">>}
        /\ steps[s].result[<<>>] = {<<"a">>}

(***************************************************************************)
(* Specification SpecFile: one file, and LocalProjectFile(file_path).      *)
(***************************************************************************)
\* a file as the constructor reads it: whether etree.parse accepts it, its number of
\* lines, whether line 1 is the XML declaration and line 2 a doctype declaration
TextFile(parseable, lines, decl, doctype) ==
    [kind |-> "xml",
     body |-> [parseable |-> parseable, lines |-> lines, decl |-> decl, doctype |-> doctype]]

FilePaths == {FileA, MapName, IshNameOf(FileA)}

\* get_xml_file_header: next(f) four times, then the pattern on what was read
get_xml_file_header(f) ==
    IF f.lines < 4 THEN [error |-> "StopIteration", header |-> "(none)"]
    ELSE [error |-> "(none)",
          header |-> IF f.decl
                     THEN (IF f.doctype THEN "declaration, doctype" ELSE "declaration")
                     ELSE "no header"]

\* LocalProjectFile.__init__(file_path): [ok, error, header]
project_file_init(d, path) ==
    IF ~Exists(d, path) THEN [ok |-> FALSE, error |-> "not found", header |-> "(none)"]
    ELSE IF ~d[path].body.parseable
    THEN [ok |-> FALSE, error |-> "parse error", header |-> "(none)"]
    ELSE LET h == get_xml_file_header(d[path].body) IN
         [ok |-> h.error = "(none)", error |-> h.error, header |-> h.header]

FileInit ==
    \E files \in SUBSET FilePaths, parseable \in BOOLEAN, lines \in 1..MaxLines,
       decl \in BOOLEAN, doctype \in BOOLEAN :
        /\ Cardinality(files) <= 1
        /\ (files = {} => parseable /\ lines = 1 /\ ~decl /\ ~doctype)
        /\ (doctype => decl)
        /\ lines >= 1 + (IF decl THEN 1 ELSE 0) + (IF doctype THEN 1 ELSE 0)
        /\ disk = [n \in files |-> TextFile(parseable, lines, decl, doctype)]
        /\ topics = <<>> /\ refs = <<>> /\ mapTitle = NoTitle /\ source = "(none)"
        /\ pc = "new" /\ idx = 0 /\ reps = <<>> /\ counter = 0
        /\ passes = 0 /\ rooted = FALSE /\ raised = FALSE
        /\ steps = <<>> /\ images = <<>> /\ imageFolder = <<>>
        /\ logged = {} /\ lastOp = "(none)" /\ start = NoStart /\ ui = NoUi

\* LocalProjectFile(file_path)
ConstructFile ==
    /\ pc = "new"
    /\ \E path \in FilePaths :
        LET res == project_file_init(disk, path) IN
        /\ steps' = <<[path |-> path, existed |-> Exists(disk, path),
                       parseable |-> Exists(disk, path) /\ disk[path].body.parseable,
                       decl |-> Exists(disk, path) /\ disk[path].body.decl,
                       lines |-> IF Exists(disk, path) THEN disk[path].body.lines ELSE 0,
                       ok |-> res.ok, error |-> res.error, header |-> res.header]>>
        /\ raised' = ~res.ok
        /\ pc' = IF res.ok THEN "idle" ELSE "failed"
        /\ logged' = IF res.error \in {"not found", "parse error"}
                     THEN {[level |-> "error", msg |-> res.error, about |-> path]}
                     ELSE IF res.ok /\ res.header = "no header"
                     THEN {[level |-> "debug", msg |-> "No XML declaration in header",
                            about |-> path]}
                     ELSE {}
    /\ lastOp' = "LocalProjectFile"
    /\ UNCHANGED <<ui, disk, source, refs, mapTitle, topics, idx, reps, counter, passes, rooted,
                   images, imageFolder, start>>

NextFile == ConstructFile

SpecFile == FileInit /\ [][NextFile]_vars

\* C22: constructing a project file fails with a not-found error exactly when the path
\* does not exist and with a parse error exactly when the file is not parseable; for
\* every existing parseable file it succeeds, and a file without a declaration gets
\* 'no header'.
C22_ProjectFileConstruction ==
    \A s \in DOMAIN steps :
        /\ steps[s].error = "not found" <=> ~steps[s].existed
        /\ steps[s].error = "parse error" <=> (steps[s].existed /\ ~steps[s].parseable)
        /\ (steps[s].existed /\ steps[s].parseable) =>
              /\ steps[s].ok
              /\ ~steps[s].decl => steps[s].header = "no header"

(***************************************************************************)
(* Specification SpecReview: a constructed map, and get_problematic_files. *)
(***************************************************************************)
\* XMLContent.shortdesc_missing: no short description text
shortdesc_missing(c) == c.shortdesc # "text"
\* XMLContent.has_draft_comments: the tree holds draft markers
has_draft_comments(c) == c.drafts

\* the characters of a path, in the order of their code points
CharOrder ==
    <<".", "0", "1", "2", "3", "4", "5", "6", "7", "8", "9",
      "A", "B", "C", "D", "E", "F", "G", "H", "I", "J", "K", "L", "M", "N", "O", "P", "Q", "R",
      "S", "T", "U", "V", "W", "X", "Y", "Z", "_",
      "a", "b", "c", "d", "e", "f", "g", "h", "i", "j", "k", "l", "m", "n", "o", "p", "q", "r",
      "s", "t", "u", "v", "w", "x", "y", "z">>
Ord(c) == CHOOSE k \in DOMAIN CharOrder : CharOrder[k] = c
ExtChars(tok) == CASE tok = DitaExt -> <<".", "d", "i", "t", "a">>
                   [] tok = IshExt -> <<".", "3", "s", "i", "s", "h">>
                   [] tok = MapExt -> <<".", "d", "i", "t", "a", "m", "a", "p">>
                   [] OTHER -> <<tok>>
RECURSIVE PathChars(_)
PathChars(name) ==
    IF name = <<>> THEN <<>> ELSE ExtChars(Head(name)) \o PathChars(Tail(name))
\* a < b for two strings
RECURSIVE StrLess(_, _)
StrLess(a, b) ==
    IF b = <<>> THEN FALSE
    ELSE IF a = <<>> THEN TRUE
    ELSE IF Head(a) = Head(b) THEN StrLess(Tail(a), Tail(b))
    ELSE Ord(Head(a)) < Ord(Head(b))
\* LocalProjectFile.__lt__
PathLess(t, u) == StrLess(PathChars(t.name), PathChars(u.name))

\* sorted(q): a stable sort by __lt__
RECURSIVE sorted(_)
sorted(q) ==
    IF q = <<>> THEN <<>>
    ELSE LET front == sorted(SubSeq(q, 1, Len(q) - 1))
             t == q[Len(q)]
             pos == Cardinality({k \in DOMAIN front : ~PathLess(t, front[k])})
         IN SubSeq(front, 1, pos) \o <<t>> \o SubSeq(front, pos + 1, Len(front))

Problematic(t) ==
    shortdesc_missing(t.content) \/ title_missing(t.content) \/ has_draft_comments(t.content)

\* lines 333-335 without the sort of line 336
get_problematic_files_unsorted(ts) == SelectSeq(ts, Problematic)

\* LocalMap.get_problematic_files
get_problematic_files(ts) == sorted(SelectSeq(ts, Problematic))

ReviewInit ==
    \E n \in 1..MaxTopics, occ \in 0..MaxTopics :
    \E titles \in [1..n -> {TNone, TRevHist}], sd \in [1..n -> {"text", "empty"}],
       dr \in [1..n -> BOOLEAN] :
        LET ts == [i \in 1..n |->
                     [id |-> i, name |-> InitName(i, occ), cls |-> "LocalConceptTopic",
                      content |-> [Content(i, "concept", "explanation", titles[i], {}, <<>>,
                                           "conbody")
                                      EXCEPT !.shortdesc = sd[i], !.drafts = dr[i]],
                      ish |-> NoIsh, children |-> <<>>, images |-> {}]]
            r == [i \in 1..n |-> [href |-> InitName(i, occ), depth |-> 0]]
        IN /\ occ <= n
           /\ topics = ts /\ refs = r /\ mapTitle = InitMapTitle /\ source = "word"
           /\ disk = [f \in {ts[i].name : i \in 1..n} \cup {MapName} |->
                        IF f = MapName THEN MapFile(r, InitMapTitle)
                        ELSE TopicFile(ts[CHOOSE i \in 1..n : ts[i].name = f].content)]
           /\ pc = "idle" /\ idx = 0 /\ reps = <<>> /\ counter = 0
           /\ passes = 0 /\ rooted = FALSE /\ raised = FALSE
           /\ steps = <<>> /\ images = <<>> /\ imageFolder = <<>>
           /\ logged = {} /\ lastOp = "LocalMap" /\ start = NoStart /\ ui = NoUi

\* LocalMap.get_problematic_files()
GetProblematicFiles ==
    /\ pc = "idle" /\ passes < MaxPasses
    /\ steps' = Append(steps, [result |-> get_problematic_files(topics),
                               topicsBefore |-> topics, refsBefore |-> refs,
                               diskBefore |-> disk])
    /\ passes' = passes + 1 /\ lastOp' = "get_problematic_files"
    /\ UNCHANGED <<ui, disk, source, refs, mapTitle, topics, pc, idx, reps, counter, rooted,
                   raised, images, imageFolder, logged, start>>

NextReview == GetProblematicFiles

SpecReview == ReviewInit /\ [][NextReview]_vars

\* C23: get_problematic_files returns exactly the topics of the map with a missing short
\* description, a missing title or draft markers, in strictly ascending order of path
\* (so each once), and leaves the topics, the references and the disk as they were.
C23_ProblematicFiles ==
    \A s \in DOMAIN steps :
        LET res == steps[s].result IN
        /\ {res[k] : k \in DOMAIN res} =
              {topics[i] : i \in {j \in DOMAIN topics :
                  \/ topics[j].content.shortdesc # "text"
                  \/ topics[j].content.title = <<>>
                  \/ topics[j].content.drafts}}
        /\ \A j \in DOMAIN res : \A k \in DOMAIN res :
              j < k => StrLess(PathChars(res[j].name), PathChars(res[k].name))
        /\ topics = steps[s].topicsBefore /\ refs = steps[s].refsBefore
        /\ disk = steps[s].diskBefore
C23_Witness ==
    \E s \in DOMAIN steps :
        /\ Len(topics) = 2 /\ Len(steps[s].result) = 2
        /\ steps[s].result[1] = topics[2] /\ steps[s].result[2] = topics[1]
        /\ topics[1].content.title = <<>> /\ topics[2].content.drafts
        /\ topics[2].content.title # <<>>

PassEnded == pc = "idle" /\ lastOp = "rename_topics"

\* C31: when a pass of rename_topics has ended, for every topic it skipped because
\* another file was at the target path, that file is as it was before the step and the
\* topic still has its old name.
C31_SkippedTargetIntact ==
    PassEnded =>
        \A k \in DOMAIN steps :
            (steps[k].targetExisted /\ steps[k].new # steps[k].old) =>
                /\ Exists(disk, steps[k].new)
                /\ disk[steps[k].new] = steps[k].targetBefore
                /\ topics[steps[k].i].name = steps[k].old

\* C32: when a pass of rename_topics has returned, no two topics of the map have the
\* same name in memory.
C32_DistinctPaths ==
    RenameReturned =>
        \A i \in DOMAIN topics : \A j \in DOMAIN topics :
            i # j => topics[i].name # topics[j].name

\* C33: a pass of rename_topics called after a pass that went through every topic, with
\* no topic added in between, leaves the names of the files in the folder, the topics'
\* names and links and the map's reference entries as they were at its call.
C33_RenameIdempotent ==
    (PassEnded /\ start.again) =>
        /\ DOMAIN disk = start.files
        /\ \A k \in DOMAIN topics : topics[k].name = start.names[k]
        /\ \A k \in DOMAIN topics : topics[k].content.links = start.links[k]
        /\ refs = start.refs

(***************************************************************************)
(* The Tridion client window (marytreat.ui.tridionclient_ui): buttons that *)
(* start a worker thread with the owner's queue, and the pollers the Tk    *)
(* main loop runs for them.                                                *)
(***************************************************************************)
\* what a worker puts on the queue: a result, an empty value, the failure marker -1
Success == "result"
Empty == ""
Failure == "-1"
Values == {Success, Empty, Failure}
\* `if result and result != -1`
Reportable(v) == v # Empty /\ v # Failure

BackgroundActions == {"search", "migration", "check", "download", "copy", "wrap"}
\* the object whose self.q and self.pb the action uses
Owner(a) == CASE a = "search" -> "SearchPartNumber"
              [] a \in {"migration", "check"} -> "ServerActionsTab"
              [] a = "download" -> "DownloadTagValueWindow"
              [] a = "copy" -> "CopyTagsWindow"
              [] a = "wrap" -> "WrapInMapWindow"
Owners == {Owner(a) : a \in BackgroundActions}

\* the windows as constructed: empty queues, progress bars not running, no thread
\* started, no callback scheduled (after[a]: scheduled calls of the poller of a)
UiStart ==
    [q |-> [o \in Owners |-> <<>>], pb |-> [o \in Owners |-> FALSE],
     after |-> [a \in BackgroundActions |-> 0], threads |-> [a \in BackgroundActions |-> 0],
     got |-> <<>>, clicks |-> 0, p_name |-> "", p_id |-> ""]

\* self.pb.start(); t = Threaded...(..., self.q); t.start(); self.after(ms, poller)
start_worker(u, a) ==
    [u EXCEPT !.pb[Owner(a)] = TRUE, !.threads[a] = @ + 1, !.after[a] = @ + 1]

\* the worker thread of action a ends by putting v on the queue it was given
worker_put(u, a, v) ==
    [u EXCEPT !.threads[a] = @ - 1, !.q[Owner(a)] = Append(@, [by |-> a, val |-> v])]

\* what a poller leaves in the history: who took which value, what was shown, and the
\* progress bar and the poller's scheduled calls afterwards
Taken(u, a, m, shown) ==
    [u EXCEPT !.got = Append(@, [poller |-> a, by |-> m.by, val |-> m.val, shown |-> shown,
                                 pb |-> u.pb[Owner(a)], after |-> u.after[a],
                                 p_name |-> u.p_name, p_id |-> u.p_id])]

\* check_queue_for_search_result as it would be without its else branch
check_queue_for_search_result_no_else(u) ==
    LET a == "search"
        o == Owner(a)
        fired == [u EXCEPT !.after[a] = @ - 1]
    IN IF u.q[o] = <<>> THEN [fired EXCEPT !.after[a] = @ + 1]
       ELSE LET m == Head(u.q[o])
                popped == [fired EXCEPT !.q[o] = Tail(@)]
            IN IF Reportable(m.val)
               THEN Taken([popped EXCEPT !.p_name = "name", !.p_id = "id", !.pb[o] = FALSE],
                          a, m, "Found project")
               ELSE Taken(popped, a, m, "(nothing)")

\* SearchPartNumber.check_queue_for_search_result, run once by the main loop
check_queue_for_search_result(u) ==
    LET a == "search"
        o == Owner(a)
        fired == [u EXCEPT !.after[a] = @ - 1]
    IN IF u.q[o] = <<>> THEN [fired EXCEPT !.after[a] = @ + 1]
       ELSE LET m == Head(u.q[o])
                popped == [fired EXCEPT !.q[o] = Tail(@)]
            IN IF Reportable(m.val)
               THEN Taken([popped EXCEPT !.p_name = "name", !.p_id = "id", !.pb[o] = FALSE],
                          a, m, "Found project")
               ELSE Taken([popped EXCEPT !.pb[o] = FALSE], a, m, "Not found")

\* the pollers of the other actions (check_queue_for_migration_completion,
\* check_queue_for_titles_and_shortdescs, check_queue_if_values_downloaded,
\* check_queue_if_copied_tags, check_queue_if_wrapped_in_map), run once
check_queue(u, a) ==
    LET o == Owner(a)
        fired == [u EXCEPT !.after[a] = @ - 1]
    IN IF u.q[o] = <<>> THEN [fired EXCEPT !.after[a] = @ + 1]
       ELSE LET m == Head(u.q[o])
                popped == [fired EXCEPT !.q[o] = Tail(@)]
            IN IF Reportable(m.val)
               THEN Taken([popped EXCEPT !.pb[o] = FALSE], a, m, "Success")
               ELSE Taken(popped, a, m, "(nothing)")

UiInit ==
    /\ ui = UiStart
    /\ disk = <<>> /\ topics = <<>> /\ refs = <<>> /\ mapTitle = NoTitle /\ source = "(none)"
    /\ pc = "idle" /\ idx = 0 /\ reps = <<>> /\ counter = 0
    /\ passes = 0 /\ rooted = FALSE /\ raised = FALSE
    /\ steps = <<>> /\ images = <<>> /\ imageFolder = <<>>
    /\ logged = {} /\ lastOp = "(none)" /\ start = NoStart

\* a button's command: with its input present it starts the worker, else it shows an
\* information box
Click(a) ==
    /\ ui.clicks < MaxClicks
    /\ \E ready \in BOOLEAN :
        /\ ui' = [(IF ready THEN start_worker(ui, a) ELSE ui) EXCEPT !.clicks = @ + 1]
        /\ logged' = IF ready THEN {}
                     ELSE {[level |-> "info", msg |-> "showinfo", about |-> a]}
    /\ lastOp' = a
    /\ UNCHANGED <<disk, source, refs, mapTitle, topics, pc, idx, reps, counter, passes,
                   rooted, raised, steps, images, imageFolder, start>>

\* a worker thread puts its value on the queue
Put(a) ==
    /\ ui.threads[a] > 0
    /\ \E v \in Values : ui' = worker_put(ui, a, v)
    /\ UNCHANGED <<disk, source, refs, mapTitle, topics, pc, idx, reps, counter, passes,
                   rooted, raised, steps, images, imageFolder, logged, lastOp, start>>

\* the main loop runs a scheduled call of the poller of a
Poll(a) ==
    /\ ui.after[a] > 0
    /\ ui' = IF a = "search" THEN check_queue_for_search_result(ui) ELSE check_queue(ui, a)
    /\ UNCHANGED <<disk, source, refs, mapTitle, topics, pc, idx, reps, counter, passes,
                   rooted, raised, steps, images, imageFolder, logged, lastOp, start>>

(***************************************************************************)
(* Specification SpecSearch: the search box of the server tab.             *)
(***************************************************************************)
FindProject == Click("search")
RepositorySearchEnds == Put("search")
CheckQueueForSearchResult == Poll("search")

NextSearch == FindProject \/ RepositorySearchEnds \/ CheckQueueForSearchResult

\* the main loop runs every scheduled callback, and a worker thread ends
SpecSearch ==
    /\ UiInit /\ [][NextSearch]_vars
    /\ WF_vars(RepositorySearchEnds) /\ WF_vars(CheckQueueForSearchResult)

(***************************************************************************)
(* Specification SpecActions: the background actions of the server tab and *)
(* of its windows.                                                         *)
(***************************************************************************)
CallCompleteMigration == Click("migration")
CallCheckTitlesAndSd == Click("check")
CallDownloadValues == Click("download")
CallCopyTags == Click("copy")
CallWrapInMap == Click("wrap")
WorkerEnds == \E a \in BackgroundActions \ {"search"} : Put(a)
CheckQueueForMigrationCompletion == Poll("migration")
CheckQueueForTitlesAndShortdescs == Poll("check")
CheckQueueIfValuesDownloaded == Poll("download")
CheckQueueIfCopiedTags == Poll("copy")
CheckQueueIfWrappedInMap == Poll("wrap")

NextActions ==
    \/ CallCompleteMigration \/ CallCheckTitlesAndSd \/ CallDownloadValues
    \/ CallCopyTags \/ CallWrapInMap \/ WorkerEnds
    \/ CheckQueueForMigrationCompletion \/ CheckQueueForTitlesAndShortdescs
    \/ CheckQueueIfValuesDownloaded \/ CheckQueueIfCopiedTags \/ CheckQueueIfWrappedInMap

SpecActions == UiInit /\ [][NextActions]_vars

\* C34: for the migration, check, download, copy and wrap actions, a progress bar that
\* is running has a poll of its owner scheduled.
C34_ProgressBarNeverStuck ==
    \A o \in Owners \ {Owner("search")} :
        ui.pb[o] => \E a \in BackgroundActions : Owner(a) = o /\ ui.after[a] > 0

SearchOwner == Owner("search")
\* C35: as many polls of the search are scheduled as there are searches whose value
\* has not been taken; a poll that takes a value stops the progress bar and shows
\* 'Found project', with name and id stored, exactly for a value that is non-empty and
\* not -1, and 'Not found' otherwise; and a value on the queue is eventually taken.
C35_SearchPolling ==
    /\ [](/\ ui.after["search"] = ui.threads["search"] + Len(ui.q[SearchOwner])
          /\ \A g \in DOMAIN ui.got :
                /\ ui.got[g].poller = "search" /\ ui.got[g].by = "search"
                /\ ~ui.got[g].pb
                /\ IF Reportable(ui.got[g].val)
                   THEN /\ ui.got[g].shown = "Found project"
                        /\ ui.got[g].p_name = "name" /\ ui.got[g].p_id = "id"
                   ELSE ui.got[g].shown = "Not found")
    /\ \A n \in 0..MaxClicks :
          (Len(ui.got) = n /\ ui.q[SearchOwner] # <<>>) ~> (Len(ui.got) > n)
C35_Witness ==
    /\ Len(ui.got) = 2
    /\ ui.got[1].val = Failure /\ ui.got[1].shown = "Not found"
    /\ ui.got[2].val = Success /\ ui.got[2].shown = "Found project"
    /\ ui.after["search"] = 0 /\ ~ui.pb[SearchOwner] /\ ui.p_name = "name"

\* C36: every value taken from a queue is taken by the poller of the action whose
\* worker put it there.
C36_ResultsReachRequester ==
    \A g \in DOMAIN ui.got : ui.got[g].poller = ui.got[g].by

====
